---- MODULE Spec2Model ----
(***************************************************************************)
(* State-machine model of the client-side stores of trading-gamers:        *)
(*   - the Identity Store  (useUserStore, the revision with getCurrentUser) *)
(*   - the Listing Store   (useListingStore)                                *)
(*   - the Player Profile Store (usePlayerProfileStore)                     *)
(*   - the durable "user-session" item of localStorage                      *)
(*                                                                          *)
(* Strings that the code trims or case-folds are sequences of one-character *)
(* strings, so that trim() and toLowerCase() are computed, not assumed.     *)
(* Optional values (passwordHash?: string) are sequences of length <= 1.    *)
(* Ids are positive naturals handed out by a counter (generateId is assumed *)
(* collision free, as the design requires); NULL (0) is JavaScript's null.  *)
(***************************************************************************)
EXTENDS Naturals, Sequences, FiniteSets

VARIABLES
    profiles,          \* useUserStore: UserProfile[]
    activeProfileId,   \* useUserStore: string | null
    authError,         \* useUserStore: string | null
    isLoading,         \* useUserStore: boolean
    session,           \* localStorage item "user-session"
    nextId,            \* next value of the user store's generateId()
    listings,          \* useListingStore: Listing[]
    listLoading,       \* useListingStore: isLoading
    listError,         \* useListingStore: error
    nextListingId,     \* next value of the listing store's generateId()
    playerProfile,     \* usePlayerProfileStore: profile
    playerLoading,     \* usePlayerProfileStore: isLoading
    playerError,       \* usePlayerProfileStore: error
    isAuthenticated,   \* usePlayerProfileStore: isAuthenticated
    playerSession,     \* usePlayerProfileStore: session
    now,               \* the value Date.now() returns
    pending,           \* the updateListing call suspended at its await, if any
    form,              \* ListingCreationModal: its state while it is mounted
    showLoading,       \* MarketplacePage: showLoading
    timer,             \* MarketplacePage: the fallback timeout is armed
    pageDeps,          \* MarketplacePage: the values its loading effect last ran with
    last               \* the operation that ran last and what it returned

vars == <<profiles, activeProfileId, authError, isLoading, session, nextId,
          listings, listLoading, listError, nextListingId,
          playerProfile, playerLoading, playerError, isAuthenticated,
          playerSession, now, pending, form, showLoading, timer, pageDeps,
          last>>

userVars == <<profiles, activeProfileId, authError, isLoading, session, nextId>>
listVars == <<listings, listLoading, listError, nextListingId>>
playerVars == <<playerProfile, playerLoading, playerError, isAuthenticated,
                playerSession>>
pageVars == <<showLoading, timer, pageDeps>>
uiVars == <<form, showLoading, timer, pageDeps>>

-----------------------------------------------------------------------------
(* Bounds *)

\* ids the user store's generateId may hand out in one run
MaxIds == 2
\* the latest value the clock reaches
MaxClock == 2
\* ids the listing store's generateId may hand out in one run
MaxListingIds == 2
\* images a listing may hold
MaxImages == 2

\* listings one run creates through the listing-creation form
MaxSubmissions == 1

NULL == 0

\* null in a string-valued field (authError, error)
NoError == "<null>"

-----------------------------------------------------------------------------
(* Strings *)

AdminName == <<"a", "d", "m", "i", "n">>

\* user names offered to the operations
Names == { <<"a">>, <<"A", " ">>, AdminName }

\* credentials offered to signup and login
Passwords == { "", "p" }

\* String.prototype.toLowerCase on one character of the alphabet in use
LowerChar(c) ==
    CASE c = "A" -> "a"
      [] c = "B" -> "b"
      [] OTHER   -> c

ToLowerCase(str) == [i \in 1..Len(str) |-> LowerChar(str[i])]

RECURSIVE TrimStart(_)
TrimStart(str) ==
    IF str # <<>> /\ Head(str) = " " THEN TrimStart(Tail(str)) ELSE str

RECURSIVE TrimEnd(_)
TrimEnd(str) ==
    IF str # <<>> /\ str[Len(str)] = " "
    THEN TrimEnd(SubSeq(str, 1, Len(str) - 1))
    ELSE str

\* String.prototype.trim
Trim(str) == TrimEnd(TrimStart(str))

\* name.trim().toLowerCase()
Normalize(name) == ToLowerCase(Trim(name))

-----------------------------------------------------------------------------
(* Sequences as JavaScript arrays *)

Range(seq) == { seq[i] : i \in 1..Len(seq) }

\* Array.prototype.find over the elements at the indices in hits: the first
\* of them, as a sequence of length <= 1 (empty: undefined)
First(seq, hits) ==
    IF hits = {} THEN <<>>
    ELSE <<seq[CHOOSE i \in hits : \A j \in hits : i <= j]>>

\* seq.find(x => x.id === id)
FindById(seq, id) == First(seq, { i \in 1..Len(seq) : seq[i].id = id })

-----------------------------------------------------------------------------
(* The durable session record *)

NoItem      == [kind |-> "none",    userId |-> NULL]
GarbageItem == [kind |-> "garbage", userId |-> NULL]
SessionItem(id) == [kind |-> "json", userId |-> id]

\* getSessionData: the parsed item, or null when absent or unparseable;
\* the result is the userId it carries, NULL when there is none
GetSessionData(item) ==
    IF item.kind = "json" THEN item.userId ELSE NULL

-----------------------------------------------------------------------------
(* The Identity Store: each operation as a function of the store's state   *)
(* s = [profiles, activeProfileId, authError, isLoading, session, nextId]  *)
(* to [s |-> the state it leaves, ret |-> what it returns].                *)

UserState ==
    [profiles |-> profiles, activeProfileId |-> activeProfileId,
     authError |-> authError, isLoading |-> isLoading,
     session |-> session, nextId |-> nextId]

\* interface UserProfile; createdAt and the descriptive fields are not modelled
UserProfile(id, name, passwordHash, isAdmin) ==
    [id |-> id, name |-> name, passwordHash |-> passwordHash, isAdmin |-> isAdmin]

\* JavaScript's !user.passwordHash: undefined or the empty string
Falsy(opt) == opt = <<>> \/ opt = <<"">>

\* profiles.find(profile => profile.name.trim().toLowerCase() === normalized)
FindByName(seq, normalized) ==
    First(seq, { i \in 1..Len(seq) : Normalize(seq[i].name) = normalized })

getCurrentUser(s) ==
    IF s.activeProfileId = NULL THEN <<>>
    ELSE FindById(s.profiles, s.activeProfileId)

\* checkSession with a plausible slip: a missing record ends the session
checkSession_ClearsWhenAbsent(s) ==
    LET userId == GetSessionData(s.session)
        userExists == \E i \in 1..Len(s.profiles) : s.profiles[i].id = userId
        s1 == IF userId # NULL
              THEN IF userExists
                   THEN [s EXCEPT !.activeProfileId = userId]
                   ELSE [s EXCEPT !.session = NoItem]
              ELSE [s EXCEPT !.activeProfileId = NULL]
    IN  [s |-> [s1 EXCEPT !.isLoading = FALSE], ret |-> "void"]

checkSession(s) ==
    LET userId == GetSessionData(s.session)
        userExists == \E i \in 1..Len(s.profiles) : s.profiles[i].id = userId
        s1 == IF userId # NULL
              THEN IF userExists
                   THEN [s EXCEPT !.activeProfileId = userId]
                   ELSE [s EXCEPT !.session = NoItem]
              ELSE s
    IN  [s |-> [s1 EXCEPT !.isLoading = FALSE], ret |-> "void"]

createProfile(s, name) ==
    LET id == s.nextId
        newProfile == UserProfile(id, name, <<>>, FALSE)
    IN  [s |-> [s EXCEPT !.profiles = Append(s.profiles, newProfile),
                         !.activeProfileId = id,
                         !.session = SessionItem(id),
                         !.nextId = id + 1],
         ret |-> "profile"]

setActiveProfile(s, id) ==
    [s |-> [s EXCEPT !.session = SessionItem(id), !.activeProfileId = id],
     ret |-> "void"]

login(s, username, password) ==
    LET normalizedUsername == Normalize(username)
        user == FindByName(s.profiles, normalizedUsername)
        s0 == [s EXCEPT !.authError = NoError, !.isLoading = TRUE]
    IN  IF user = <<>>
        THEN [s |-> [s0 EXCEPT !.authError = "User not found", !.isLoading = FALSE],
              ret |-> "false"]
        ELSE IF Falsy(user[1].passwordHash)
        THEN [s |-> [s0 EXCEPT !.authError = "Account authentication error",
                               !.isLoading = FALSE],
              ret |-> "false"]
        ELSE IF user[1].passwordHash # <<password>>
        THEN [s |-> [s0 EXCEPT !.authError = "Invalid password", !.isLoading = FALSE],
              ret |-> "false"]
        ELSE [s |-> [s0 EXCEPT !.activeProfileId = user[1].id,
                               !.isLoading = FALSE,
                               !.session = SessionItem(user[1].id)],
              ret |-> "true"]

\* signup with a plausible slip: the names are compared as written
signup_ExactNameMatch(s, username, password) ==
    LET isUnique == ~ \E i \in 1..Len(s.profiles) : s.profiles[i].name = username
        s0 == [s EXCEPT !.authError = NoError]
        id == s.nextId
        newProfile == UserProfile(id, username, <<password>>, FALSE)
    IN  IF ~isUnique
        THEN [s |-> [s0 EXCEPT !.authError = "Username already exists"],
              ret |-> "false"]
        ELSE [s |-> [s0 EXCEPT !.profiles = Append(s.profiles, newProfile),
                               !.activeProfileId = id,
                               !.session = SessionItem(id),
                               !.nextId = id + 1],
              ret |-> "true"]

signup(s, username, password) ==
    LET normalizedUsername == Normalize(username)
        isUnique == ~ \E i \in 1..Len(s.profiles) :
                        Normalize(s.profiles[i].name) = normalizedUsername
        s0 == [s EXCEPT !.authError = NoError]
        id == s.nextId
        newProfile == UserProfile(id, username, <<password>>, FALSE)
    IN  IF ~isUnique
        THEN [s |-> [s0 EXCEPT !.authError = "Username already exists"],
              ret |-> "false"]
        ELSE [s |-> [s0 EXCEPT !.profiles = Append(s.profiles, newProfile),
                               !.activeProfileId = id,
                               !.session = SessionItem(id),
                               !.nextId = id + 1],
              ret |-> "true"]

logout(s) ==
    [s |-> [s EXCEPT !.session = NoItem, !.activeProfileId = NULL,
                     !.authError = NoError],
     ret |-> "void"]

updateProfileName(s, id, name) ==
    [s |-> [s EXCEPT !.profiles =
                [i \in 1..Len(s.profiles) |->
                    IF s.profiles[i].id = id
                    THEN [s.profiles[i] EXCEPT !.name = name]
                    ELSE s.profiles[i]]],
     ret |-> "void"]

\* { ...profile, ...details }: details is a record holding some of the
\* patchable fields (here name, isAdmin)
updateProfileDetails(s, id, details) ==
    [s |-> [s EXCEPT !.profiles =
                [i \in 1..Len(s.profiles) |->
                    IF s.profiles[i].id = id
                    THEN [f \in DOMAIN s.profiles[i] |->
                            IF f \in DOMAIN details THEN details[f]
                            ELSE s.profiles[i][f]]
                    ELSE s.profiles[i]]],
     ret |-> "void"]

\* deleteProfile with a plausible slip: the session record is always removed
deleteProfile_AlwaysClearsSession(s, id) ==
    LET updatedProfiles == SelectSeq(s.profiles, LAMBDA p : p.id # id)
    IN  [s |-> [s EXCEPT !.profiles = updatedProfiles,
                         !.session = NoItem,
                         !.activeProfileId = IF s.activeProfileId = id THEN NULL
                                             ELSE s.activeProfileId],
         ret |-> "void"]

deleteProfile(s, id) ==
    LET updatedProfiles == SelectSeq(s.profiles, LAMBDA p : p.id # id)
    IN  [s |-> [s EXCEPT !.profiles = updatedProfiles,
                         !.session = IF s.activeProfileId = id THEN NoItem
                                     ELSE s.session,
                         !.activeProfileId = IF s.activeProfileId = id THEN NULL
                                             ELSE s.activeProfileId],
         ret |-> "void"]

\* isNameUnique with a plausible slip: the candidate name is not trimmed
isNameUnique_NoTrim(s, name, excludeId) ==
    LET normalized == ToLowerCase(name)
    IN  ~ \E i \in 1..Len(s.profiles) :
            /\ s.profiles[i].id # excludeId
            /\ Normalize(s.profiles[i].name) = normalized

isNameUnique(s, name, excludeId) ==
    LET normalized == Normalize(name)
    IN  ~ \E i \in 1..Len(s.profiles) :
            /\ s.profiles[i].id # excludeId
            /\ Normalize(s.profiles[i].name) = normalized

resetData(s) ==
    [s |-> [s EXCEPT !.session = NoItem, !.profiles = <<>>,
                     !.activeProfileId = NULL],
     ret |-> "void"]

\* onLoad with a plausible slip: the created profile lacks the admin flag
onLoad_NoAdminFlag(s) ==
    LET adminExists == \E i \in 1..Len(s.profiles) :
                          /\ ToLowerCase(s.profiles[i].name) = AdminName
                          /\ s.profiles[i].isAdmin = TRUE
        id == s.nextId
        adminProfile == UserProfile(id, AdminName, <<"adminpass">>, FALSE)
    IN  IF ~adminExists
        THEN [s |-> [s EXCEPT !.profiles = Append(s.profiles, adminProfile),
                              !.nextId = id + 1],
              ret |-> "void"]
        ELSE [s |-> s, ret |-> "void"]

\* the admin bootstrap; note name.toLowerCase() without trim()
onLoad(s) ==
    LET adminExists == \E i \in 1..Len(s.profiles) :
                          /\ ToLowerCase(s.profiles[i].name) = AdminName
                          /\ s.profiles[i].isAdmin = TRUE
        id == s.nextId
        adminProfile == UserProfile(id, AdminName, <<"adminpass">>, TRUE)
    IN  IF ~adminExists
        THEN [s |-> [s EXCEPT !.profiles = Append(s.profiles, adminProfile),
                              !.nextId = id + 1],
              ret |-> "void"]
        ELSE [s |-> s, ret |-> "void"]

\* sync config: onInitComplete runs checkSession, then onLoad
onInitComplete(s) == onLoad(checkSession(s).s)

-----------------------------------------------------------------------------
(* The Player Profile Store: each operation as a function of the Identity  *)
(* Store's state s and of its own state                                    *)
(* p = [profile, isLoading, error, isAuthenticated, session]               *)
(* to [s, p |-> the states it leaves, ret |-> what it returns].  profile   *)
(* and session are null (<<>>) or hold one value.                          *)

PlayerState ==
    [profile |-> playerProfile, isLoading |-> playerLoading,
     error |-> playerError, isAuthenticated |-> isAuthenticated,
     session |-> playerSession]

\* JSON.parse(localStorage.getItem("user-session") || "null"): null for a
\* missing item, the stored object for a JSON item, a SyntaxError otherwise
ParseSession(item) ==
    CASE item.kind = "none"    -> [throws |-> FALSE, val |-> <<>>]
      [] item.kind = "json"    -> [throws |-> FALSE, val |-> <<[userId |-> item.userId]>>]
      [] item.kind = "garbage" -> [throws |-> TRUE,  val |-> <<>>]

\* the PlayerProfile that login, signup and fetchProfileFromUser build: the
\* name twice, a blank email, a role; dates and the optional descriptive
\* fields are not modelled
PlayerProfile(id, username, role) ==
    [id |-> id, username |-> username, displayName |-> username,
     email |-> "", role |-> role]

setProfile(p, profile) ==
    [p EXCEPT !.profile = <<profile>>, !.isLoading = FALSE, !.error = NoError]

clearProfile(p) ==
    [p EXCEPT !.profile = <<>>, !.isLoading = FALSE, !.error = NoError,
              !.isAuthenticated = FALSE, !.session = <<>>]

\* updateProfile: the patch is merged into the projection, if there is one
updateProfile(s, p, updates) ==
    LET profile == p.profile[1]
        merged == [f \in DOMAIN profile |->
                      IF f \in DOMAIN updates THEN updates[f] ELSE profile[f]]
    IN  [s |-> s,
         p |-> [p EXCEPT !.profile = IF p.profile # <<>> THEN <<merged>> ELSE <<>>,
                         !.error = NoError],
         ret |-> "void"]

setLoading(p, loading) == [p EXCEPT !.isLoading = loading]

setError(p, error) == [p EXCEPT !.error = error, !.isLoading = FALSE]

fetchProfileFromUser(s, p) ==
    LET p0 == setLoading(p, TRUE)
        userId == s.activeProfileId
        found == FindById(s.profiles, userId)
        userProfile == found[1]
        mapped == PlayerProfile(userProfile.id, userProfile.name,
                                IF userProfile.isAdmin = TRUE THEN "admin"
                                ELSE "regular")
        p1 == IF userId = NULL THEN setError(p0, "No active user found")
              ELSE IF found = <<>> THEN setError(p0, "User profile not found")
              ELSE setProfile(p0, mapped)
    IN  [s |-> s, p |-> setLoading(p1, FALSE), ret |-> "void"]

\* usePlayerProfileStore.login
playerLogin(s, p, username, password) ==
    LET p0 == setLoading(p, TRUE)
        r == login(s, username, password)
        parsed == ParseSession(r.s.session)
        p1 == IF r.ret = "true"
              THEN IF parsed.throws
                   THEN [p0 EXCEPT !.error = "SyntaxError",
                                   !.isAuthenticated = FALSE]
                   ELSE fetchProfileFromUser(r.s,
                            [p0 EXCEPT !.isAuthenticated = TRUE,
                                       !.session = parsed.val,
                                       !.error = NoError]).p
              ELSE [p0 EXCEPT !.error = IF r.s.authError = NoError
                                        THEN "Login failed" ELSE r.s.authError,
                              !.isAuthenticated = FALSE]
    IN  [s |-> r.s, p |-> setLoading(p1, FALSE),
         ret |-> IF r.ret = "true" /\ ~ parsed.throws THEN "true" ELSE "false"]

\* usePlayerProfileStore.signup
playerSignup(s, p, username, password) ==
    LET p0 == setLoading(p, TRUE)
        r == signup(s, username, password)
        parsed == ParseSession(r.s.session)
        userId == r.s.activeProfileId
        p2 == [p0 EXCEPT !.isAuthenticated = TRUE, !.session = parsed.val,
                         !.error = NoError]
        p1 == IF r.ret = "true"
              THEN IF parsed.throws
                   THEN [p0 EXCEPT !.error = "SyntaxError",
                                   !.isAuthenticated = FALSE]
                   ELSE IF userId # NULL
                        THEN setProfile(p2, PlayerProfile(userId, username, "regular"))
                        ELSE p2
              ELSE [p0 EXCEPT !.error = IF r.s.authError = NoError
                                        THEN "Signup failed" ELSE r.s.authError,
                              !.isAuthenticated = FALSE]
    IN  [s |-> r.s, p |-> setLoading(p1, FALSE),
         ret |-> IF r.ret = "true" /\ ~ parsed.throws THEN "true" ELSE "false"]

\* usePlayerProfileStore.logout
playerLogout(s, p) ==
    [s |-> logout(s).s, p |-> clearProfile(p), ret |-> "void"]

\* usePlayerProfileStore.checkSession: JSON.parse is not guarded here, so an
\* unparseable item makes the call throw before it sets anything
playerCheckSession(s, p) ==
    LET parsed == ParseSession(s.session)
    IN  IF parsed.throws
        THEN [s |-> s, p |-> p, ret |-> "throws"]
        ELSE IF parsed.val # <<>> /\ parsed.val[1].userId # NULL
        THEN [s |-> s,
              p |-> fetchProfileFromUser(s,
                        [p EXCEPT !.isAuthenticated = TRUE,
                                  !.session = parsed.val]).p,
              ret |-> "void"]
        ELSE [s |-> s,
              p |-> [p EXCEPT !.isAuthenticated = FALSE, !.session = <<>>],
              ret |-> "void"]

-----------------------------------------------------------------------------
(* The Listing Store: each operation as a function of the store's state    *)
(* m = [listings, isLoading, error, nextListingId] and of the Identity     *)
(* Store's current user (a sequence of length <= 1).                       *)

ListingState ==
    [listings |-> listings, isLoading |-> listLoading,
     error |-> listError, nextListingId |-> nextListingId, now |-> now]

ListingTypes == { "sell", "buy", "trade", "offer_service", "request_service" }

ItemCategories == { "video_game", "board_game", "console", "accessory",
                    "collectible", "other" }

ServiceCategories == { "coaching", "game_master", "mediation", "other" }

Statuses == { "active", "pending", "sold", "inactive" }

\* String.prototype.split(','): the pieces between the commas
RECURSIVE SplitComma(_, _)
SplitComma(str, piece) ==
    IF str = <<>> THEN <<piece>>
    ELSE IF Head(str) = "," THEN <<piece>> \o SplitComma(Tail(str), <<>>)
    ELSE SplitComma(Tail(str), Append(piece, Head(str)))

\* tags.split(',').map(tag => tag.trim()).filter(Boolean)
ParseTags(str) ==
    LET pieces  == SplitComma(str, <<>>)
        trimmed == [i \in 1..Len(pieces) |-> Trim(pieces[i])]
    IN  SelectSeq(trimmed, LAMBDA tag : tag # <<>>)

\* createMockImageUrl: the URL is a function of the file alone
createMockImageUrl(file) == <<"url", file>>

\* createDefaultImage with a plausible slip: the placeholder is not primary
createDefaultImage_NotPrimary == [url |-> <<"placeholder">>, isPrimary |-> FALSE]

\* createDefaultImage: one placeholder image, flagged primary (which of the
\* six placeholder texts is drawn is not modelled)
createDefaultImage == [url |-> <<"placeholder">>, isPrimary |-> TRUE]

getListingById(m, id) == FindById(m.listings, id)

\* createListing with a plausible slip: the catch block leaves isLoading set
createListing_KeepsLoading(m, currentUser, formData, imageFiles) ==
    LET m0 == [m EXCEPT !.isLoading = TRUE, !.error = NoError]
        tagsArray == IF formData.tags # <<>> THEN ParseTags(formData.tags) ELSE <<>>
        images == IF Len(imageFiles) > 0
                  THEN [i \in 1..Len(imageFiles) |->
                          [url |-> createMockImageUrl(imageFiles[i]),
                           isPrimary |-> (i = 1)]]
                  ELSE <<createDefaultImage>>
        newListing == [id |-> m.nextListingId,
                       createdAt |-> m.now,
                       updatedAt |-> m.now,
                       sellerId |-> currentUser[1].id,
                       sellerName |-> currentUser[1].name,
                       title |-> formData.title,
                       listingType |-> formData.listingType,
                       category |-> formData.category,
                       tags |-> tagsArray,
                       images |-> images,
                       status |-> "active"]
    IN  IF currentUser = <<>>
        THEN [m |-> [m0 EXCEPT !.error = "You must be logged in to create a listing"],
              ret |-> "throws", val |-> <<>>]
        ELSE [m |-> [m0 EXCEPT !.listings = Append(m.listings, newListing),
                               !.isLoading = FALSE,
                               !.nextListingId = m.nextListingId + 1],
              ret |-> "listing", val |-> <<newListing>>]

\* createListing with a plausible slip: the new listing is put first
createListing_Prepends(m, currentUser, formData, imageFiles) ==
    LET m0 == [m EXCEPT !.isLoading = TRUE, !.error = NoError]
        tagsArray == IF formData.tags # <<>> THEN ParseTags(formData.tags) ELSE <<>>
        images == IF Len(imageFiles) > 0
                  THEN [i \in 1..Len(imageFiles) |->
                          [url |-> createMockImageUrl(imageFiles[i]),
                           isPrimary |-> (i = 1)]]
                  ELSE <<createDefaultImage>>
        newListing == [id |-> m.nextListingId,
                       createdAt |-> m.now,
                       updatedAt |-> m.now,
                       sellerId |-> currentUser[1].id,
                       sellerName |-> currentUser[1].name,
                       title |-> formData.title,
                       listingType |-> formData.listingType,
                       category |-> formData.category,
                       tags |-> tagsArray,
                       images |-> images,
                       status |-> "active"]
    IN  IF currentUser = <<>>
        THEN [m |-> [m0 EXCEPT !.error = "You must be logged in to create a listing",
                               !.isLoading = FALSE],
              ret |-> "throws", val |-> <<>>]
        ELSE [m |-> [m0 EXCEPT !.listings = <<newListing>> \o m.listings,
                               !.isLoading = FALSE,
                               !.nextListingId = m.nextListingId + 1],
              ret |-> "listing", val |-> <<newListing>>]

\* createListing with a plausible slip: the primary image is chosen by a
\* one-based index test that no uploaded image passes
createListing_NoPrimaryUpload(m, currentUser, formData, imageFiles) ==
    LET m0 == [m EXCEPT !.isLoading = TRUE, !.error = NoError]
        tagsArray == IF formData.tags # <<>> THEN ParseTags(formData.tags) ELSE <<>>
        images == IF Len(imageFiles) > 0
                  THEN [i \in 1..Len(imageFiles) |->
                          [url |-> createMockImageUrl(imageFiles[i]),
                           isPrimary |-> (i = 0)]]
                  ELSE <<createDefaultImage>>
        newListing == [id |-> m.nextListingId,
                       createdAt |-> m.now,
                       updatedAt |-> m.now,
                       sellerId |-> currentUser[1].id,
                       sellerName |-> currentUser[1].name,
                       title |-> formData.title,
                       listingType |-> formData.listingType,
                       category |-> formData.category,
                       tags |-> tagsArray,
                       images |-> images,
                       status |-> "active"]
    IN  IF currentUser = <<>>
        THEN [m |-> [m0 EXCEPT !.error = "You must be logged in to create a listing",
                               !.isLoading = FALSE],
              ret |-> "throws", val |-> <<>>]
        ELSE [m |-> [m0 EXCEPT !.listings = Append(m.listings, newListing),
                               !.isLoading = FALSE,
                               !.nextListingId = m.nextListingId + 1],
              ret |-> "listing", val |-> <<newListing>>]

createListing(m, currentUser, formData, imageFiles) ==
    LET m0 == [m EXCEPT !.isLoading = TRUE, !.error = NoError]
        tagsArray == IF formData.tags # <<>> THEN ParseTags(formData.tags) ELSE <<>>
        images == IF Len(imageFiles) > 0
                  THEN [i \in 1..Len(imageFiles) |->
                          [url |-> createMockImageUrl(imageFiles[i]),
                           isPrimary |-> (i = 1)]]
                  ELSE <<createDefaultImage>>
        newListing == [id |-> m.nextListingId,
                       createdAt |-> m.now,
                       updatedAt |-> m.now,
                       sellerId |-> currentUser[1].id,
                       sellerName |-> currentUser[1].name,
                       title |-> formData.title,
                       listingType |-> formData.listingType,
                       category |-> formData.category,
                       tags |-> tagsArray,
                       images |-> images,
                       status |-> "active"]
    IN  IF currentUser = <<>>
        THEN [m |-> [m0 EXCEPT !.error = "You must be logged in to create a listing",
                               !.isLoading = FALSE],
              ret |-> "throws", val |-> <<>>]
        ELSE [m |-> [m0 EXCEPT !.listings = Append(m.listings, newListing),
                               !.isLoading = FALSE,
                               !.nextListingId = m.nextListingId + 1],
              ret |-> "listing", val |-> <<newListing>>]

\* updateListing with a plausible slip: appended images are flagged the way
\* createListing flags them
updateListing_FlagsAppended(m, currentUser, id, formData, imageFiles) ==
    LET m0 == [m EXCEPT !.isLoading = TRUE, !.error = NoError]
        found == getListingById(m, id)
        listing == found[1]
        tagsArray == IF "tags" \in DOMAIN formData THEN ParseTags(formData.tags)
                     ELSE listing.tags
        newImages == [i \in 1..Len(imageFiles) |->
                        [url |-> createMockImageUrl(imageFiles[i]),
                         isPrimary |-> (i = 1)]]
        appended == listing.images \o newImages
        updatedImages ==
            IF Len(imageFiles) > 0
            THEN IF (~ \E i \in 1..Len(appended) : appended[i].isPrimary)
                    /\ Len(appended) > 0
                 THEN [appended EXCEPT ![1].isPrimary = TRUE]
                 ELSE appended
            ELSE listing.images
        merged == [f \in DOMAIN listing |->
                      IF f \in DOMAIN formData THEN formData[f] ELSE listing[f]]
        updatedListing == [merged EXCEPT !.tags = tagsArray,
                                         !.images = updatedImages,
                                         !.updatedAt = m.now]
        fail(msg) == [m |-> [m0 EXCEPT !.error = msg, !.isLoading = FALSE],
                      ret |-> "null", val |-> <<>>]
    IN  IF currentUser = <<>>
        THEN fail("You must be logged in to update a listing")
        ELSE IF found = <<>>
        THEN fail("Listing not found")
        ELSE IF listing.sellerId # currentUser[1].id
        THEN fail("You can only update your own listings")
        ELSE [m |-> [m0 EXCEPT !.listings =
                        [i \in 1..Len(m.listings) |->
                            IF m.listings[i].id = id THEN updatedListing
                            ELSE m.listings[i]],
                               !.isLoading = FALSE],
              ret |-> "listing", val |-> <<updatedListing>>]

\* updateListing with a plausible slip: the error of an earlier operation is
\* not cleared on entry
updateListing_KeepsStaleError(m, currentUser, id, formData, imageFiles) ==
    LET m0 == [m EXCEPT !.isLoading = TRUE]
        found == getListingById(m, id)
        listing == found[1]
        tagsArray == IF "tags" \in DOMAIN formData THEN ParseTags(formData.tags)
                     ELSE listing.tags
        newImages == [i \in 1..Len(imageFiles) |->
                        [url |-> createMockImageUrl(imageFiles[i]),
                         isPrimary |-> FALSE]]
        appended == listing.images \o newImages
        updatedImages ==
            IF Len(imageFiles) > 0
            THEN IF (~ \E i \in 1..Len(appended) : appended[i].isPrimary)
                    /\ Len(appended) > 0
                 THEN [appended EXCEPT ![1].isPrimary = TRUE]
                 ELSE appended
            ELSE listing.images
        merged == [f \in DOMAIN listing |->
                      IF f \in DOMAIN formData THEN formData[f] ELSE listing[f]]
        updatedListing == [merged EXCEPT !.tags = tagsArray,
                                         !.images = updatedImages,
                                         !.updatedAt = m.now]
        fail(msg) == [m |-> [m0 EXCEPT !.error = msg, !.isLoading = FALSE],
                      ret |-> "null", val |-> <<>>]
    IN  IF currentUser = <<>>
        THEN fail("You must be logged in to update a listing")
        ELSE IF found = <<>>
        THEN fail("Listing not found")
        ELSE IF listing.sellerId # currentUser[1].id
        THEN fail("You can only update your own listings")
        ELSE [m |-> [m0 EXCEPT !.listings =
                        [i \in 1..Len(m.listings) |->
                            IF m.listings[i].id = id THEN updatedListing
                            ELSE m.listings[i]],
                               !.isLoading = FALSE],
              ret |-> "listing", val |-> <<updatedListing>>]

\* updateListing with a plausible slip: the creation timestamp is renewed too
updateListing_RestampsCreation(m, currentUser, id, formData, imageFiles) ==
    LET m0 == [m EXCEPT !.isLoading = TRUE, !.error = NoError]
        found == getListingById(m, id)
        listing == found[1]
        tagsArray == IF "tags" \in DOMAIN formData THEN ParseTags(formData.tags)
                     ELSE listing.tags
        newImages == [i \in 1..Len(imageFiles) |->
                        [url |-> createMockImageUrl(imageFiles[i]),
                         isPrimary |-> FALSE]]
        appended == listing.images \o newImages
        updatedImages ==
            IF Len(imageFiles) > 0
            THEN IF (~ \E i \in 1..Len(appended) : appended[i].isPrimary)
                    /\ Len(appended) > 0
                 THEN [appended EXCEPT ![1].isPrimary = TRUE]
                 ELSE appended
            ELSE listing.images
        merged == [f \in DOMAIN listing |->
                      IF f \in DOMAIN formData THEN formData[f] ELSE listing[f]]
        updatedListing == [merged EXCEPT !.tags = tagsArray,
                                         !.images = updatedImages,
                                         !.updatedAt = m.now,
                                         !.createdAt = m.now]
        fail(msg) == [m |-> [m0 EXCEPT !.error = msg, !.isLoading = FALSE],
                      ret |-> "null", val |-> <<>>]
    IN  IF currentUser = <<>>
        THEN fail("You must be logged in to update a listing")
        ELSE IF found = <<>>
        THEN fail("Listing not found")
        ELSE IF listing.sellerId # currentUser[1].id
        THEN fail("You can only update your own listings")
        ELSE [m |-> [m0 EXCEPT !.listings =
                        [i \in 1..Len(m.listings) |->
                            IF m.listings[i].id = id THEN updatedListing
                            ELSE m.listings[i]],
                               !.isLoading = FALSE],
              ret |-> "listing", val |-> <<updatedListing>>]

updateListing(m, currentUser, id, formData, imageFiles) ==
    LET m0 == [m EXCEPT !.isLoading = TRUE, !.error = NoError]
        found == getListingById(m, id)
        listing == found[1]
        tagsArray == IF "tags" \in DOMAIN formData THEN ParseTags(formData.tags)
                     ELSE listing.tags
        newImages == [i \in 1..Len(imageFiles) |->
                        [url |-> createMockImageUrl(imageFiles[i]),
                         isPrimary |-> FALSE]]
        appended == listing.images \o newImages
        updatedImages ==
            IF Len(imageFiles) > 0
            THEN IF (~ \E i \in 1..Len(appended) : appended[i].isPrimary)
                    /\ Len(appended) > 0
                 THEN [appended EXCEPT ![1].isPrimary = TRUE]
                 ELSE appended
            ELSE listing.images
        merged == [f \in DOMAIN listing |->
                      IF f \in DOMAIN formData THEN formData[f] ELSE listing[f]]
        updatedListing == [merged EXCEPT !.tags = tagsArray,
                                         !.images = updatedImages,
                                         !.updatedAt = m.now]
        fail(msg) == [m |-> [m0 EXCEPT !.error = msg, !.isLoading = FALSE],
                      ret |-> "null", val |-> <<>>]
    IN  IF currentUser = <<>>
        THEN fail("You must be logged in to update a listing")
        ELSE IF found = <<>>
        THEN fail("Listing not found")
        ELSE IF listing.sellerId # currentUser[1].id
        THEN fail("You can only update your own listings")
        ELSE [m |-> [m0 EXCEPT !.listings =
                        [i \in 1..Len(m.listings) |->
                            IF m.listings[i].id = id THEN updatedListing
                            ELSE m.listings[i]],
                               !.isLoading = FALSE],
              ret |-> "listing", val |-> <<updatedListing>>]

\* updateListing up to its await: the checks, the tag list and the listing it
\* read.  With image files the call is suspended at `await Promise.all(...)`
\* holding what it has computed; without, nothing is awaited and the call
\* runs to its end.
updateListingBegin(m, currentUser, id, formData, imageFiles) ==
    LET m0 == [m EXCEPT !.isLoading = TRUE, !.error = NoError]
        found == getListingById(m, id)
        listing == found[1]
        tagsArray == IF "tags" \in DOMAIN formData THEN ParseTags(formData.tags)
                     ELSE listing.tags
        call == [id |-> id, formData |-> formData, imageFiles |-> imageFiles,
                 listing |-> listing, tagsArray |-> tagsArray]
        done == updateListing(m, currentUser, id, formData, imageFiles)
    IN  IF currentUser = <<>> \/ found = <<>>
           \/ listing.sellerId # currentUser[1].id \/ Len(imageFiles) = 0
        THEN [m |-> done.m, ret |-> done.ret, val |-> done.val, pending |-> <<>>]
        ELSE [m |-> m0, ret |-> "suspended", val |-> <<>>, pending |-> <<call>>]

\* updateListing from its await on: the images are appended to the images of
\* the listing read before the await, the listing is rebuilt from that
\* listing, and it replaces the listing with its id in the collection as it
\* is now
updateListingResume(m, call) ==
    LET listing == call.listing
        formData == call.formData
        newImages == [i \in 1..Len(call.imageFiles) |->
                        [url |-> createMockImageUrl(call.imageFiles[i]),
                         isPrimary |-> FALSE]]
        appended == listing.images \o newImages
        updatedImages ==
            IF (~ \E i \in 1..Len(appended) : appended[i].isPrimary)
               /\ Len(appended) > 0
            THEN [appended EXCEPT ![1].isPrimary = TRUE]
            ELSE appended
        merged == [f \in DOMAIN listing |->
                      IF f \in DOMAIN formData THEN formData[f] ELSE listing[f]]
        updatedListing == [merged EXCEPT !.tags = call.tagsArray,
                                         !.images = updatedImages,
                                         !.updatedAt = m.now]
    IN  [m |-> [m EXCEPT !.listings =
                    [i \in 1..Len(m.listings) |->
                        IF m.listings[i].id = call.id THEN updatedListing
                        ELSE m.listings[i]],
                         !.isLoading = FALSE],
         ret |-> "listing", val |-> <<updatedListing>>]

\* deleteListing with a plausible slip: the ownership check is missing
deleteListing_NoOwnerCheck(m, currentUser, id) ==
    LET m0 == [m EXCEPT !.isLoading = TRUE, !.error = NoError]
        found == getListingById(m, id)
        fail(msg) == [m |-> [m0 EXCEPT !.error = msg, !.isLoading = FALSE],
                      ret |-> "false", val |-> <<>>]
    IN  IF currentUser = <<>>
        THEN fail("You must be logged in to delete a listing")
        ELSE IF found = <<>>
        THEN fail("Listing not found")
        ELSE [m |-> [m0 EXCEPT !.listings =
                        SelectSeq(m.listings, LAMBDA l : l.id # id),
                               !.isLoading = FALSE],
              ret |-> "true", val |-> <<>>]

deleteListing(m, currentUser, id) ==
    LET m0 == [m EXCEPT !.isLoading = TRUE, !.error = NoError]
        found == getListingById(m, id)
        fail(msg) == [m |-> [m0 EXCEPT !.error = msg, !.isLoading = FALSE],
                      ret |-> "false", val |-> <<>>]
    IN  IF currentUser = <<>>
        THEN fail("You must be logged in to delete a listing")
        ELSE IF found = <<>>
        THEN fail("Listing not found")
        ELSE IF found[1].sellerId # currentUser[1].id
        THEN fail("You can only delete your own listings")
        ELSE [m |-> [m0 EXCEPT !.listings =
                        SelectSeq(m.listings, LAMBDA l : l.id # id),
                               !.isLoading = FALSE],
              ret |-> "true", val |-> <<>>]

\* setListingStatus with a plausible slip: the listing is looked up before
\* the acting identity is resolved
setListingStatus_LooksUpFirst(m, currentUser, id, status) ==
    LET m0 == [m EXCEPT !.isLoading = TRUE, !.error = NoError]
        found == getListingById(m, id)
        fail(msg) == [m |-> [m0 EXCEPT !.error = msg, !.isLoading = FALSE],
                      ret |-> "false", val |-> <<>>]
    IN  IF found = <<>>
        THEN fail("Listing not found")
        ELSE IF currentUser = <<>>
        THEN fail("You must be logged in to update a listing status")
        ELSE IF found[1].sellerId # currentUser[1].id
        THEN fail("You can only update your own listings")
        ELSE [m |-> [m0 EXCEPT !.listings =
                        [i \in 1..Len(m.listings) |->
                            IF m.listings[i].id = id
                            THEN [m.listings[i] EXCEPT !.status = status,
                                                       !.updatedAt = m.now]
                            ELSE m.listings[i]],
                               !.isLoading = FALSE],
              ret |-> "true", val |-> <<>>]

\* setListingStatus with a plausible slip: the map tests the seller, not the id
setListingStatus_EveryOwnListing(m, currentUser, id, status) ==
    LET m0 == [m EXCEPT !.isLoading = TRUE, !.error = NoError]
        found == getListingById(m, id)
        fail(msg) == [m |-> [m0 EXCEPT !.error = msg, !.isLoading = FALSE],
                      ret |-> "false", val |-> <<>>]
    IN  IF currentUser = <<>>
        THEN fail("You must be logged in to update a listing status")
        ELSE IF found = <<>>
        THEN fail("Listing not found")
        ELSE IF found[1].sellerId # currentUser[1].id
        THEN fail("You can only update your own listings")
        ELSE [m |-> [m0 EXCEPT !.listings =
                        [i \in 1..Len(m.listings) |->
                            IF m.listings[i].sellerId = currentUser[1].id
                            THEN [m.listings[i] EXCEPT !.status = status,
                                                       !.updatedAt = m.now]
                            ELSE m.listings[i]],
                               !.isLoading = FALSE],
              ret |-> "true", val |-> <<>>]

setListingStatus(m, currentUser, id, status) ==
    LET m0 == [m EXCEPT !.isLoading = TRUE, !.error = NoError]
        found == getListingById(m, id)
        fail(msg) == [m |-> [m0 EXCEPT !.error = msg, !.isLoading = FALSE],
                      ret |-> "false", val |-> <<>>]
    IN  IF currentUser = <<>>
        THEN fail("You must be logged in to update a listing status")
        ELSE IF found = <<>>
        THEN fail("Listing not found")
        ELSE IF found[1].sellerId # currentUser[1].id
        THEN fail("You can only update your own listings")
        ELSE [m |-> [m0 EXCEPT !.listings =
                        [i \in 1..Len(m.listings) |->
                            IF m.listings[i].id = id
                            THEN [m.listings[i] EXCEPT !.status = status,
                                                       !.updatedAt = m.now]
                            ELSE m.listings[i]],
                               !.isLoading = FALSE],
              ret |-> "true", val |-> <<>>]

-----------------------------------------------------------------------------
(* Inputs *)

\* an id no profile carries: a profile deleted in an earlier run
GhostId == MaxIds + 1

ProfileIds == { profiles[i].id : i \in 1..Len(profiles) }

\* ids offered to the operations that take one
IdInputs == ProfileIds \cup {GhostId}

\* patches offered to updateProfileDetails
DetailInputs == { [name |-> n] : n \in Names } \cup { [isAdmin |-> b] : b \in BOOLEAN }

\* a profile that an earlier run signed up and the sync layer has loaded
PersistedProfile == UserProfile(1, <<"a">>, <<"p">>, FALSE)

\* the "user-session" item an earlier run may have left behind
InitialItems == { NoItem, GarbageItem, SessionItem(NULL), SessionItem(1),
                  SessionItem(GhostId) }

ListingIds == { listings[i].id : i \in 1..Len(listings) }

ListingIdInputs == ListingIds \cup {MaxListingIds + 1}

\* form data offered to createListing
FormInputs == { [title |-> "t1", tags |-> <<>>,
                 listingType |-> "sell", category |-> "video_game"],
                [title |-> "t2", tags |-> <<"x", ",", " ", "y">>,
                 listingType |-> "offer_service", category |-> "coaching"] }

\* partial form data offered to updateListing
PatchInputs == { [title |-> "t2"], [tags |-> <<",", "z", " ">>] }

\* names and credentials offered to signup and login in SpecMarket
MarketNames == { <<"a">>, AdminName }
MarketPasswords == { "p" }

\* form data, patches and statuses that drive the Listing Store in SpecMarket
MarketForms == { [title |-> "t1", tags |-> <<>>,
                  listingType |-> "sell", category |-> "video_game"] }
MarketPatches == { [title |-> "t2"] }
MarketStatuses == { "sold" }

\* image files offered to createListing and updateListing; the empty list
\* also stands for an absent argument (`imageFiles && imageFiles.length > 0`)
FileInputs == { <<>>, <<"f1">> }

\* patches offered to the Player Profile Store's updateProfile
PlayerPatches == { [email |-> "e"], [displayName |-> <<"z">>],
                   [role |-> "admin", username |-> <<"z">>] }

\* names, credentials and statuses that drive SpecContent: one seller
ContentNames == { <<"a">> }
ContentPasswords == { "p" }
ContentStatuses == { "sold" }

\* the patch of the updateListing that runs while another one is suspended
AsyncPatches == { [tags |-> <<"z">>] }

\* the id of a listing another client created
RemoteId == MaxListingIds + 2

\* image lists a listing delivered by the synchronization layer may carry:
\* none, one without a primary flag, one with, two without
RemoteImages ==
    { <<>>,
      <<[url |-> <<"url", "r1">>, isPrimary |-> FALSE]>>,
      <<[url |-> <<"url", "r1">>, isPrimary |-> TRUE]>>,
      <<[url |-> <<"url", "r1">>, isPrimary |-> FALSE],
        [url |-> <<"url", "r2">>, isPrimary |-> FALSE]>> }

\* a listing of the persisted seller as another client wrote it
RemoteListing(images) ==
    [id |-> RemoteId, createdAt |-> 0, updatedAt |-> 0,
     sellerId |-> PersistedProfile.id, sellerName |-> PersistedProfile.name,
     title |-> "t1", listingType |-> "sell", category |-> "video_game",
     tags |-> <<>>, images |-> images, status |-> "active"]

\* the "marketplace-listings" documents the synchronization layer delivers
RemoteDocuments == { <<RemoteListing(images)>> : images \in RemoteImages }

-----------------------------------------------------------------------------
(* The listing-creation form (ListingCreationModal) *)

totalSteps == 5

\* isPhysicalItem and isService split the listing types
PhysicalTypes == { "sell", "buy", "trade" }
ServiceTypes == { "offer_service", "request_service" }

isPhysicalItem(f) == f.listingType \in PhysicalTypes
isService(f) == f.listingType \in ServiceTypes

\* useState's initial values; errors holds the names of the fields that
\* carry a message
InitialFormData ==
    [listingType |-> "sell", category |-> "video_game", title |-> <<>>,
     shortDescription |-> <<>>, price |-> <<>>, condition |-> "new",
     location |-> <<>>, isRemote |-> FALSE, contactInfo |-> <<>>,
     tags |-> <<>>]

InitialForm ==
    [formData |-> InitialFormData, currentStep |-> 1, errors |-> {},
     imageUrl |-> <<>>]

\* handleChange: the named field takes the value and loses its message
handleChange(F, name, value) ==
    [F EXCEPT !.formData = [@ EXCEPT ![name] = value],
              !.errors = @ \ {name}]

\* handleCheckboxChange: the named field takes the checkbox's state
handleCheckboxChange(F, name, checked) ==
    [F EXCEPT !.formData = [@ EXCEPT ![name] = checked]]

handleImageUrlChange(F, value) == [F EXCEPT !.imageUrl = value]

\* validateStep: the names of the fields of the step that fail
validateStep(f, step) ==
    CASE step = 1 ->
           (IF f.listingType = "" THEN {"listingType"} ELSE {})
           \cup (IF f.category = "" THEN {"category"} ELSE {})
      [] step = 2 ->
           (IF Trim(f.title) = <<>> THEN {"title"} ELSE {})
           \cup (IF Trim(f.shortDescription) = <<>>
                 THEN {"shortDescription"} ELSE {})
      [] step = 3 ->
           (IF Trim(f.price) = <<>> THEN {"price"} ELSE {})
           \cup (IF isPhysicalItem(f) /\ f.condition = ""
                 THEN {"condition"} ELSE {})
      [] step = 4 ->
           (IF Trim(f.location) = <<>> /\ ~f.isRemote
            THEN {"location"} ELSE {})
           \cup (IF Trim(f.contactInfo) = <<>> THEN {"contactInfo"} ELSE {})
      [] OTHER -> {}

getFieldsForStep(step) ==
    CASE step = 1 -> {"listingType", "category"}
      [] step = 2 -> {"title", "shortDescription", "detailedDescription"}
      [] step = 3 -> {"price", "condition"}
      [] step = 4 -> {"location", "isRemote", "contactInfo"}
      [] step = 5 -> {"tags"}
      [] OTHER -> {}

\* handleNextStep with a plausible slip: the step is not validated
handleNextStep_NoValidation(F) ==
    [F EXCEPT !.currentStep = IF @ + 1 < totalSteps THEN @ + 1 ELSE totalSteps]

\* handleNextStep: the messages of the current step, or one step forward
handleNextStep(F) ==
    LET validationErrors == validateStep(F.formData, F.currentStep)
    IN  IF validationErrors # {}
        THEN [F EXCEPT !.errors = validationErrors]
        ELSE [F EXCEPT !.currentStep =
                          IF @ + 1 < totalSteps THEN @ + 1 ELSE totalSteps]

handlePrevStep(F) ==
    [F EXCEPT !.currentStep = IF @ - 1 > 1 THEN @ - 1 ELSE 1]

\* handleSubmit: before the last step it is handleNextStep; on the last step
\* it validates every step, goes to the earliest step that has a message,
\* or hands the form data to createListing and closes the form
handleSubmit(F, m, currentUser) ==
    LET formErrors == UNION { validateStep(F.formData, step) :
                                step \in 1..totalSteps }
        errorSteps == { step \in 1..totalSteps :
                          getFieldsForStep(step) \cap formErrors # {} }
        imageFiles == IF Trim(F.imageUrl) # <<>> THEN <<F.imageUrl>> ELSE <<>>
        r == createListing(m, currentUser, F.formData, imageFiles)
    IN  IF F.currentStep < totalSteps
        THEN [form |-> <<handleNextStep(F)>>, m |-> m,
              ret |-> "next", val |-> <<>>]
        ELSE IF formErrors # {}
        THEN [form |-> <<[F EXCEPT
                            !.errors = formErrors,
                            !.currentStep =
                               IF errorSteps # {}
                               THEN CHOOSE step \in errorSteps :
                                      \A other \in errorSteps : step <= other
                               ELSE @]>>,
              m |-> m, ret |-> "invalid", val |-> <<>>]
        ELSE IF r.ret = "throws"
        THEN [form |-> <<[F EXCEPT !.errors = @ \cup {"general"}]>>,
              m |-> r.m, ret |-> "throws", val |-> <<>>]
        ELSE [form |-> <<>>, m |-> r.m, ret |-> "listing", val |-> r.val]

-----------------------------------------------------------------------------
(* The marketplace page's loading indicator (MarketplacePage) *)

\* the loading effect with a plausible slip: no fallback timeout is set
loadingEffect_NoFallback(isUserLoading, isListingsLoading) ==
    [showLoading |-> isUserLoading \/ isListingsLoading, timer |-> FALSE]

\* the loading effect's body, run after the previous run's cleanup has
\* cleared the timeout
loadingEffect(isUserLoading, isListingsLoading) ==
    IF isUserLoading \/ isListingsLoading
    THEN [showLoading |-> TRUE, timer |-> TRUE]
    ELSE [showLoading |-> FALSE, timer |-> FALSE]

\* what the user types into the title field and into the other text fields
FormTitles == { <<" ">>, <<"x">> }
FormTexts == { <<"x">> }

\* the listing types and categories the user picks in the form; the
\* category list offered depends on the listing type shown
FormTypes == { "sell", "offer_service" }
FormCategories(f) ==
    IF isService(f) THEN { "coaching", "other" } ELSE { "video_game", "other" }
FormConditions == { "good" }
FormTags == { <<"x">> }
FormImageUrls == { <<"u">> }

\* the fields the form renders on a step and the values offered for them
FieldValues(F, name) ==
    LET f == F.formData
        step == F.currentStep
    IN  CASE name = "listingType" /\ step = 1 -> FormTypes
          [] name = "category" /\ step = 1 -> FormCategories(f)
          [] name = "title" /\ step = 2 -> FormTitles
          [] name = "shortDescription" /\ step = 2 -> FormTexts
          [] name = "price" /\ step = 3 -> FormTexts
          [] name = "condition" /\ step = 3 /\ isPhysicalItem(f) -> FormConditions
          [] name = "location" /\ step = 4 /\ ~f.isRemote -> FormTexts
          [] name = "contactInfo" /\ step = 4 -> FormTexts
          [] name = "tags" /\ step = 5 -> FormTags
          [] OTHER -> {}

FieldNames == { "listingType", "category", "title", "shortDescription",
                "price", "condition", "location", "contactInfo", "tags" }

-----------------------------------------------------------------------------
(* The state machine *)

Init ==
    /\ profiles \in { <<>>, <<PersistedProfile>> }
    /\ nextId = Len(profiles) + 1
    /\ activeProfileId = NULL
    /\ authError = NoError
    /\ isLoading = TRUE
    /\ session \in InitialItems
    /\ listings = <<>>
    /\ listLoading = FALSE
    /\ listError = NoError
    /\ nextListingId = 1
    /\ playerProfile = <<>>
    /\ playerLoading = FALSE
    /\ playerError = NoError
    /\ isAuthenticated = FALSE
    /\ playerSession = <<>>
    /\ now = 0
    /\ pending = <<>>
    /\ form = <<>>
    /\ showLoading = FALSE
    /\ timer = FALSE
    /\ pageDeps = <<>>
    /\ last = [op |-> "init", ret |-> "void"]

\* SpecMarket starts with no durable session record
InitMarket == Init /\ session = NoItem

\* a user-store operation with outcome r has run
UserStep(op, r) ==
    /\ profiles' = r.s.profiles
    /\ activeProfileId' = r.s.activeProfileId
    /\ authError' = r.s.authError
    /\ isLoading' = r.s.isLoading
    /\ session' = r.s.session
    /\ nextId' = r.s.nextId
    /\ last' = [op |-> op, ret |-> r.ret]
    /\ UNCHANGED uiVars
    /\ UNCHANGED listVars
    /\ UNCHANGED playerVars
    /\ UNCHANGED now
    /\ UNCHANGED pending

\* a listing-store operation with outcome r has run
ListingStep(op, r) ==
    /\ listings' = r.m.listings
    /\ listLoading' = r.m.isLoading
    /\ listError' = r.m.error
    /\ nextListingId' = r.m.nextListingId
    /\ last' = [op |-> op, ret |-> r.ret]
    /\ UNCHANGED uiVars
    /\ UNCHANGED userVars
    /\ UNCHANGED playerVars
    /\ UNCHANGED now
    /\ UNCHANGED pending

\* a player-profile-store operation with outcome r has run
PlayerStep(op, r) ==
    /\ profiles' = r.s.profiles
    /\ activeProfileId' = r.s.activeProfileId
    /\ authError' = r.s.authError
    /\ isLoading' = r.s.isLoading
    /\ session' = r.s.session
    /\ nextId' = r.s.nextId
    /\ playerProfile' = r.p.profile
    /\ playerLoading' = r.p.isLoading
    /\ playerError' = r.p.error
    /\ isAuthenticated' = r.p.isAuthenticated
    /\ playerSession' = r.p.session
    /\ last' = [op |-> op, ret |-> r.ret]
    /\ UNCHANGED uiVars
    /\ UNCHANGED listVars
    /\ UNCHANGED now
    /\ UNCHANGED pending

Login(username, password) ==
    UserStep("login", login(UserState, username, password))

Signup(username, password) ==
    /\ nextId <= MaxIds
    /\ UserStep("signup", signup(UserState, username, password))
   

Logout == UserStep("logout", logout(UserState))

CheckSession == UserStep("checkSession", checkSession(UserState))

CreateProfile(name) ==
    /\ nextId <= MaxIds
    /\ UserStep("createProfile", createProfile(UserState, name))
   

SetActiveProfile(id) ==
    UserStep("setActiveProfile", setActiveProfile(UserState, id))

UpdateProfileName(id, name) ==
    UserStep("updateProfileName", updateProfileName(UserState, id, name))
   

UpdateProfileDetails(id, details) ==
    UserStep("updateProfileDetails", updateProfileDetails(UserState, id, details))
   

DeleteProfile(id) ==
    UserStep("deleteProfile", deleteProfile(UserState, id))

ResetData == UserStep("resetData", resetData(UserState))

OnLoad ==
    /\ nextId <= MaxIds
    /\ UserStep("onLoad", onLoad(UserState))
   

OnInitComplete ==
    /\ nextId <= MaxIds
    /\ UserStep("onInitComplete", onInitComplete(UserState))

CreateListing(formData, imageFiles) ==
    /\ nextListingId <= MaxListingIds
    /\ ListingStep("createListing",
                   createListing(ListingState, getCurrentUser(UserState),
                                 formData, imageFiles))

UpdateListing(id, formData, imageFiles) ==
    /\ \A i \in 1..Len(listings) :
          listings[i].id = id => Len(listings[i].images) + Len(imageFiles) <= MaxImages
    /\ ListingStep("updateListing",
                updateListing(ListingState, getCurrentUser(UserState),
                              id, formData, imageFiles))

DeleteListing(id) ==
    ListingStep("deleteListing",
                deleteListing(ListingState, getCurrentUser(UserState), id))

SetListingStatus(id, status) ==
    ListingStep("setListingStatus",
                setListingStatus(ListingState, getCurrentUser(UserState), id, status))

\* the synchronization layer delivers a remote "marketplace-listings"
\* document, which replaces the listing collection
SyncReplace ==
    /\ \E doc \in RemoteDocuments : listings' = doc
    /\ last' = [op |-> "syncReplace", ret |-> "void"]
    /\ UNCHANGED uiVars
    /\ UNCHANGED <<listLoading, listError, nextListingId>>
    /\ UNCHANGED userVars
    /\ UNCHANGED playerVars
    /\ UNCHANGED now
    /\ UNCHANGED pending

\* updateListing is called with image files and runs up to its await
UpdateListingBegin(id, formData, imageFiles) ==
    /\ pending = <<>>
    /\ \A i \in 1..Len(listings) :
          listings[i].id = id => Len(listings[i].images) + Len(imageFiles) <= MaxImages
    /\ LET r == updateListingBegin(ListingState, getCurrentUser(UserState),
                                   id, formData, imageFiles)
       IN  /\ listings' = r.m.listings
           /\ listLoading' = r.m.isLoading
           /\ listError' = r.m.error
           /\ nextListingId' = r.m.nextListingId
           /\ pending' = r.pending
           /\ last' = [op |-> "updateListingBegin", ret |-> r.ret]
           /\ UNCHANGED uiVars
    /\ UNCHANGED userVars
    /\ UNCHANGED playerVars
    /\ UNCHANGED now

\* the suspended updateListing resumes and completes
UpdateListingResume ==
    /\ pending # <<>>
    /\ LET r == updateListingResume(ListingState, pending[1])
       IN  /\ listings' = r.m.listings
           /\ listLoading' = r.m.isLoading
           /\ listError' = r.m.error
           /\ nextListingId' = r.m.nextListingId
           /\ pending' = <<>>
           /\ last' = [op |-> "updateListing", ret |-> r.ret]
           /\ UNCHANGED uiVars
    /\ UNCHANGED userVars
    /\ UNCHANGED playerVars
    /\ UNCHANGED now

\* time passes: Date.now() returns a later value from here on
Tick ==
    /\ now < MaxClock
    /\ now' = now + 1
    /\ last' = [op |-> "tick", ret |-> "void"]
    /\ UNCHANGED uiVars
    /\ UNCHANGED pending
    /\ UNCHANGED userVars
    /\ UNCHANGED listVars
    /\ UNCHANGED playerVars

PlayerLogin(username, password) ==
    PlayerStep("playerLogin",
               playerLogin(UserState, PlayerState, username, password))

PlayerSignup(username, password) ==
    /\ nextId <= MaxIds
    /\ PlayerStep("playerSignup",
                  playerSignup(UserState, PlayerState, username, password))

PlayerLogout == PlayerStep("playerLogout", playerLogout(UserState, PlayerState))

PlayerCheckSession ==
    PlayerStep("playerCheckSession", playerCheckSession(UserState, PlayerState))

PlayerFetchProfile ==
    PlayerStep("fetchProfileFromUser", fetchProfileFromUser(UserState, PlayerState))

PlayerUpdateProfile(updates) ==
    PlayerStep("updateProfile", updateProfile(UserState, PlayerState, updates))

\* the Identity Store's operations
Next ==
    \/ \E u \in Names, p \in Passwords : Login(u, p)
    \/ \E u \in Names, p \in Passwords : Signup(u, p)
    \/ Logout
    \/ CheckSession
    \/ \E n \in Names : CreateProfile(n)
    \/ \E id \in IdInputs : SetActiveProfile(id)
    \/ \E id \in IdInputs, n \in Names : UpdateProfileName(id, n)
    \/ \E id \in IdInputs, d \in DetailInputs : UpdateProfileDetails(id, d)
    \/ \E id \in IdInputs : DeleteProfile(id)
    \/ ResetData
    \/ OnLoad
    \/ OnInitComplete

\* the Listing Store's operations, with the Identity Store operations that
\* open, switch and end the acting session
NextMarket ==
    \/ \E u \in MarketNames, p \in MarketPasswords : Signup(u, p)
    \/ \E u \in MarketNames, p \in MarketPasswords : Login(u, p)
    \/ Logout
    \/ \E id \in IdInputs : DeleteProfile(id)
    \/ \E f \in MarketForms : CreateListing(f, <<>>)
    \/ \E id \in ListingIdInputs, f \in MarketPatches : UpdateListing(id, f, <<>>)
    \/ \E id \in ListingIdInputs : DeleteListing(id)
    \/ \E id \in ListingIdInputs, st \in MarketStatuses : SetListingStatus(id, st)

\* one seller's listings in full: every form, patch and image input
NextContent ==
    \/ \E u \in ContentNames, p \in ContentPasswords : Login(u, p)
    \/ Logout
    \/ \E f \in FormInputs, imgs \in FileInputs : CreateListing(f, imgs)
    \/ \E id \in ListingIdInputs, f \in PatchInputs, imgs \in FileInputs :
          UpdateListing(id, f, imgs)
    \/ \E id \in ListingIdInputs : DeleteListing(id)
    \/ \E id \in ListingIdInputs, st \in ContentStatuses : SetListingStatus(id, st)

\* the same, with remote documents arriving between the operations
NextSynced ==
    \/ \E u \in ContentNames, p \in ContentPasswords : Login(u, p)
    \/ Logout
    \/ SyncReplace
    \/ \E f \in MarketForms : CreateListing(f, <<>>)
    \/ \E id \in ListingIdInputs, f \in MarketPatches, imgs \in FileInputs :
          UpdateListing(id, f, imgs)
    \/ \E id \in ListingIdInputs : DeleteListing(id)
    \/ \E id \in ListingIdInputs, st \in ContentStatuses : SetListingStatus(id, st)

\* the Player Profile Store's operations, with the Identity Store operations
\* that read the session record or remove what it points to
NextPlayer ==
    \/ \E u \in MarketNames, pw \in Passwords : PlayerLogin(u, pw)
    \/ \E u \in MarketNames, pw \in Passwords : PlayerSignup(u, pw)
    \/ PlayerLogout
    \/ PlayerCheckSession
    \/ PlayerFetchProfile
    \/ \E updates \in PlayerPatches : PlayerUpdateProfile(updates)
    \/ CheckSession
    \/ Logout
    \/ \E id \in IdInputs : DeleteProfile(id)
    \/ OnInitComplete

\* the Identity Store once startup has run checkSession: the operations that
\* write activeProfileId or the session record
NextSession ==
    \/ \E u \in Names, p \in Passwords : Login(u, p)
    \/ \E u \in Names, p \in Passwords : Signup(u, p)
    \/ Logout
    \/ CheckSession
    \/ \E n \in Names : CreateProfile(n)
    \/ \E id \in IdInputs : SetActiveProfile(id)
    \/ \E id \in IdInputs : DeleteProfile(id)
    \/ ResetData

\* the states startup's checkSession (onInitComplete) leaves
InitSession ==
    \E ps \in { <<>>, <<PersistedProfile>> }, item \in InitialItems :
        LET r == checkSession([profiles |-> ps, activeProfileId |-> NULL,
                               authError |-> NoError, isLoading |-> TRUE,
                               session |-> item, nextId |-> Len(ps) + 1])
        IN  /\ profiles = r.s.profiles
            /\ activeProfileId = r.s.activeProfileId
            /\ authError = r.s.authError
            /\ isLoading = r.s.isLoading
            /\ session = r.s.session
            /\ nextId = r.s.nextId
            /\ listings = <<>>
            /\ listLoading = FALSE
            /\ listError = NoError
            /\ nextListingId = 1
            /\ playerProfile = <<>>
            /\ playerLoading = FALSE
            /\ playerError = NoError
            /\ isAuthenticated = FALSE
            /\ playerSession = <<>>
            /\ now = 0
            /\ pending = <<>>
            /\ form = <<>>
            /\ showLoading = FALSE
            /\ timer = FALSE
            /\ pageDeps = <<>>
            /\ last = [op |-> "checkSession", ret |-> r.ret]

\* one seller's listings while time passes
NextTimed ==
    \/ \E u \in ContentNames, p \in ContentPasswords : Login(u, p)
    \/ Logout
    \/ Tick
    \/ \E f \in MarketForms : CreateListing(f, <<>>)
    \/ \E id \in ListingIdInputs, f \in PatchInputs, imgs \in FileInputs :
          UpdateListing(id, f, imgs)
    \/ \E id \in ListingIdInputs : DeleteListing(id)
    \/ \E id \in ListingIdInputs, st \in ContentStatuses : SetListingStatus(id, st)

\* one seller's listings with an updateListing that can be suspended at its
\* await while other operations and remote documents come in
NextAsync ==
    \/ \E u \in ContentNames, p \in ContentPasswords : Login(u, p)
    \/ \E f \in MarketForms : CreateListing(f, <<>>)
    \/ \E id \in ListingIdInputs, f \in MarketPatches, imgs \in FileInputs :
          UpdateListingBegin(id, f, imgs)
    \/ UpdateListingResume
    \/ \E id \in ListingIdInputs, f \in AsyncPatches : UpdateListing(id, f, <<>>)
    \/ \E id \in ListingIdInputs, st \in ContentStatuses : SetListingStatus(id, st)
    \/ SyncReplace

\* SpecContent and SpecSynced start with the persisted seller and no session
InitContent == InitMarket /\ profiles = <<PersistedProfile>>

\* the Identity Store
Spec == Init /\ [][Next]_vars

\* the Listing Store and the sessions that act on it
SpecMarket == InitMarket /\ [][NextMarket]_vars

\* the Player Profile Store over the Identity Store
SpecPlayer == Init /\ [][NextPlayer]_vars

\* the Identity Store after startup
SpecSession == InitSession /\ [][NextSession]_vars

\* the Listing Store with a clock that advances
SpecTimed == InitContent /\ [][NextTimed]_vars

\* the Listing Store with updateListing split at its await
SpecAsync == InitContent /\ [][NextAsync]_vars

\* the Listing Store driven by its own operations only
SpecContent == InitContent /\ [][NextContent]_vars

\* the Listing Store with the synchronization layer's deliveries
SpecSynced == InitContent /\ [][NextSynced]_vars

-----------------------------------------------------------------------------
(* The listing-creation form and the marketplace page as state machines *)

\* a form handler has run and left the form in state F
FormStep(op, F) ==
    /\ form' = <<F>>
    /\ last' = [op |-> op, ret |-> "void"]
    /\ UNCHANGED <<userVars, listVars, playerVars, pageVars, now, pending>>

\* a signed-in user opens the form, which mounts with its initial state
OpenModal ==
    /\ form = <<>>
    /\ getCurrentUser(UserState) # <<>>
    /\ FormStep("openModal", InitialForm)

\* the user changes a field the current step shows
HandleChange(name) ==
    /\ form # <<>>
    /\ \E value \in FieldValues(form[1], name) :
          FormStep("handleChange", handleChange(form[1], name, value))

HandleCheckboxChange(checked) ==
    /\ form # <<>>
    /\ form[1].currentStep = 4
    /\ FormStep("handleCheckboxChange",
                handleCheckboxChange(form[1], "isRemote", checked))

HandleImageUrlChange(value) ==
    /\ form # <<>>
    /\ form[1].currentStep = 5
    /\ FormStep("handleImageUrlChange", handleImageUrlChange(form[1], value))

\* the Next button, shown before the last step
HandleNextStep ==
    /\ form # <<>>
    /\ form[1].currentStep < totalSteps
    /\ FormStep("handleNextStep", handleNextStep(form[1]))

\* the Back button, shown after the first step
HandlePrevStep ==
    /\ form # <<>>
    /\ form[1].currentStep > 1
    /\ FormStep("handlePrevStep", handlePrevStep(form[1]))

\* the form is submitted, on any step
HandleSubmit ==
    /\ form # <<>>
    /\ nextListingId <= MaxSubmissions
    /\ LET r == handleSubmit(form[1], ListingState, getCurrentUser(UserState))
       IN  /\ form' = r.form
           /\ listings' = r.m.listings
           /\ listLoading' = r.m.isLoading
           /\ listError' = r.m.error
           /\ nextListingId' = r.m.nextListingId
           /\ last' = [op |-> "handleSubmit", ret |-> r.ret]
    /\ UNCHANGED <<userVars, playerVars, pageVars, now, pending>>

\* the page's loading effect runs after a render in which one of the two
\* isLoading values differs from the last run's (and after the first render)
LoadingEffect ==
    /\ pageDeps # <<isLoading, listLoading>>
    /\ LET r == loadingEffect(isLoading, listLoading)
       IN  /\ showLoading' = r.showLoading
           /\ timer' = r.timer
    /\ pageDeps' = <<isLoading, listLoading>>
    /\ last' = [op |-> "loadingEffect", ret |-> "void"]
    /\ UNCHANGED <<userVars, listVars, playerVars, form, now, pending>>

\* the fallback timeout fires
FallbackTimeout ==
    /\ timer
    /\ showLoading' = FALSE
    /\ timer' = FALSE
    /\ last' = [op |-> "fallbackTimeout", ret |-> "void"]
    /\ UNCHANGED <<userVars, listVars, playerVars, form, pageDeps, now, pending>>

\* a seller fills in and submits the form
NextForm ==
    \/ \E u \in ContentNames, p \in ContentPasswords : Login(u, p)
    \/ OpenModal
    \/ \E name \in FieldNames : HandleChange(name)
    \/ \E checked \in BOOLEAN : HandleCheckboxChange(checked)
    \/ \E value \in FormImageUrls : HandleImageUrlChange(value)
    \/ HandleNextStep
    \/ HandlePrevStep
    \/ HandleSubmit

\* the marketplace page while the stores load and work
NextPage ==
    \/ \E u \in ContentNames, p \in ContentPasswords : Login(u, p)
    \/ CheckSession
    \/ \E f \in MarketForms : CreateListing(f, <<>>)
    \/ \E id \in ListingIdInputs, f \in MarketPatches, imgs \in FileInputs :
          UpdateListingBegin(id, f, imgs)
    \/ UpdateListingResume
    \/ LoadingEffect
    \/ FallbackTimeout

\* the listing-creation form over the Listing Store
SpecForm == InitContent /\ [][NextForm]_vars

\* the marketplace page: React runs a pending effect, and the event loop
\* runs an armed timeout. A run of the effect replaces an armed timeout by
\* a fresh one, so the fairness condition on FallbackTimeout takes for
\* granted that the stores' flags do not keep changing faster than the
\* timeout forever.
SpecPage ==
    /\ InitContent
    /\ [][NextPage]_vars
    /\ WF_vars(LoadingEffect)
    /\ WF_vars(FallbackTimeout)

-----------------------------------------------------------------------------
(* Claims *)

CurrentUser == getCurrentUser(UserState)

\* C1: for every listing L and every acting session whose current user is
\* not L's seller, updateListing, deleteListing and setListingStatus on L
\* return null / false / false and leave the listing collection as it was.
C1_NonOwnerCannotMutate ==
    \A i \in 1..Len(listings) :
        (CurrentUser # <<>> /\ CurrentUser[1].id # listings[i].sellerId) =>
            /\ \A f \in PatchInputs, imgs \in FileInputs :
                 LET r == updateListing(ListingState, CurrentUser,
                                        listings[i].id, f, imgs)
                 IN  r.ret = "null" /\ r.m.listings = listings
            /\ LET r == deleteListing(ListingState, CurrentUser, listings[i].id)
               IN  r.ret = "false" /\ r.m.listings = listings
            /\ \A st \in Statuses :
                 LET r == setListingStatus(ListingState, CurrentUser,
                                           listings[i].id, st)
                 IN  r.ret = "false" /\ r.m.listings = listings

\* C1 witness: a user who is not the seller has called deleteListing, was
\* refused, and the listing is still there.
C1_Witness ==
    /\ last = [op |-> "deleteListing", ret |-> "false"]
    /\ listError = "You can only delete your own listings"
    /\ CurrentUser # <<>>
    /\ \E i \in 1..Len(listings) : listings[i].sellerId # CurrentUser[1].id

\* C2: no two profiles have the same trimmed, case-folded display name.
C2_DisplayNamesUnique ==
    \A i, j \in 1..Len(profiles) :
        i # j => Normalize(profiles[i].name) # Normalize(profiles[j].name)

\* C3: signup with a name whose trimmed, case-folded form is already taken
\* returns false with 'Username already exists' and leaves the profile set,
\* the active session and the durable session record unchanged.
C3_SignupNameTaken ==
    \A u \in Names, p \in Passwords :
        (\E i \in 1..Len(profiles) : Normalize(profiles[i].name) = Normalize(u)) =>
            LET r == signup(UserState, u, p)
            IN  /\ r.ret = "false"
                /\ r.s.authError = "Username already exists"
                /\ r.s.profiles = profiles
                /\ r.s.activeProfileId = activeProfileId
                /\ r.s.session = session

\* C3 witness: a signup has been refused because the name was taken.
C3_Witness ==
    /\ last = [op |-> "signup", ret |-> "false"]
    /\ authError = "Username already exists"
    /\ Len(profiles) > 0

\* C4: for every profile P with a stored credential c, login(P.name, c)
\* returns true and afterwards getCurrentUser() is P.
C4_LoginWithStoredCredentialSucceeds ==
    \A i \in 1..Len(profiles) :
        profiles[i].passwordHash # <<>> =>
            LET r == login(UserState, profiles[i].name, profiles[i].passwordHash[1])
            IN  r.ret = "true" /\ getCurrentUser(r.s) = <<profiles[i]>>

\* C4, the credentials the sign-up form accepts: the same statement for the
\* profiles whose stored credential is not the empty string.
C4_LoginWithNonEmptyCredentialSucceeds ==
    \A i \in 1..Len(profiles) :
        ~Falsy(profiles[i].passwordHash) =>
            LET r == login(UserState, profiles[i].name, profiles[i].passwordHash[1])
            IN  r.ret = "true" /\ getCurrentUser(r.s) = <<profiles[i]>>

\* C5: login with the name of an existing profile and a credential other
\* than the one it stores returns false, sets authError, and leaves the
\* profile set, activeProfileId and the durable session record as they were.
C5_WrongCredentialChangesNothing ==
    \A i \in 1..Len(profiles), p \in Passwords :
        (profiles[i].passwordHash # <<>> /\ profiles[i].passwordHash # <<p>>) =>
            LET r == login(UserState, profiles[i].name, p)
            IN  /\ r.ret = "false"
                /\ r.s.authError # NoError
                /\ r.s.profiles = profiles
                /\ r.s.activeProfileId = activeProfileId
                /\ r.s.session = session

\* what login reports: the error it sets, or "success"
LoginOutcome(r) == IF r.ret = "true" THEN "success" ELSE r.s.authError

\* C6: login reports exactly one outcome: no profile matches the trimmed,
\* case-folded name -> 'User not found'; the matched profile has no stored
\* credential -> 'Account authentication error'; the stored credential is
\* not the supplied one -> 'Invalid password'; otherwise success, with
\* activeProfileId and the durable record set to the matched profile's id.
C6_LoginOutcomeRule ==
    \A u \in Names, p \in Passwords :
        LET user == FindByName(profiles, Normalize(u))
            r == login(UserState, u, p)
        IN  IF user = <<>>
            THEN LoginOutcome(r) = "User not found"
            ELSE IF user[1].passwordHash = <<>>
            THEN LoginOutcome(r) = "Account authentication error"
            ELSE IF user[1].passwordHash # <<p>>
            THEN LoginOutcome(r) = "Invalid password"
            ELSE /\ LoginOutcome(r) = "success"
                 /\ r.s.activeProfileId = user[1].id
                 /\ r.s.session = SessionItem(user[1].id)

\* C6, as the code decides it: the same rule with an empty stored
\* credential counted as no stored credential.
C6_LoginOutcomeRuleEmptyIsMissing ==
    \A u \in Names, p \in Passwords :
        LET user == FindByName(profiles, Normalize(u))
            r == login(UserState, u, p)
        IN  IF user = <<>>
            THEN LoginOutcome(r) = "User not found"
            ELSE IF user[1].passwordHash \in { <<>>, <<"">> }
            THEN LoginOutcome(r) = "Account authentication error"
            ELSE IF user[1].passwordHash # <<p>>
            THEN LoginOutcome(r) = "Invalid password"
            ELSE /\ LoginOutcome(r) = "success"
                 /\ r.s.activeProfileId = user[1].id
                 /\ r.s.session = SessionItem(user[1].id)

\* the durable record names a user id that no profile carries
StaleRecord(s) ==
    /\ GetSessionData(s.session) # NULL
    /\ \A i \in 1..Len(s.profiles) : s.profiles[i].id # GetSessionData(s.session)

\* C7: if the durable record references a user id that is not in the profile
\* set, then after checkSession() activeProfileId is null, getCurrentUser()
\* returns none and the record is removed, whatever activeProfileId held.
C7_StaleRecordEndsSession ==
    StaleRecord(UserState) =>
        LET r == checkSession(UserState)
        IN  /\ r.s.activeProfileId = NULL
            /\ getCurrentUser(r.s) = <<>>
            /\ r.s.session = NoItem

\* C7, what checkSession does do with a stale record: the record is removed
\* and getCurrentUser() returns none.
C7_StaleRecordPurged ==
    StaleRecord(UserState) =>
        LET r == checkSession(UserState)
        IN  getCurrentUser(r.s) = <<>> /\ r.s.session = NoItem

\* C8: checkSession is idempotent: a second call in a row leaves the same
\* activeProfileId, durable record and isLoading as the first.
C8_CheckSessionIdempotent ==
    LET once  == checkSession(UserState).s
        twice == checkSession(once).s
    IN  /\ twice.activeProfileId = once.activeProfileId
        /\ twice.session = once.session
        /\ twice.isLoading = once.isLoading

\* C8 witness: checkSession has run on a stale record next to a live
\* activeProfileId, and has purged the record (the state in which a second
\* call finds no record).
C8_Witness ==
    /\ last.op = "checkSession"
    /\ session = NoItem
    /\ activeProfileId # NULL
    /\ ~isLoading

\* C9: deleteProfile(id) removes exactly the profile with that id; if it was
\* the active profile, activeProfileId becomes null and the durable record is
\* removed; otherwise activeProfileId and the durable record are unchanged.
C9_DeleteProfileFrame ==
    \A id \in IdInputs :
        LET r == deleteProfile(UserState, id)
            kept == { i \in 1..Len(profiles) : profiles[i].id # id }
        IN  /\ Len(r.s.profiles) = Cardinality(kept)
            /\ \A i \in kept : profiles[i] \in Range(r.s.profiles)
            /\ \A j \in 1..Len(r.s.profiles) :
                  r.s.profiles[j].id # id /\ r.s.profiles[j] \in Range(profiles)
            /\ activeProfileId = id =>
                  r.s.activeProfileId = NULL /\ r.s.session = NoItem
            /\ activeProfileId # id =>
                  r.s.activeProfileId = activeProfileId /\ r.s.session = session

\* C9 witness: a profile other than the active one has been deleted and the
\* session of the active one is intact.
C9_Witness ==
    /\ last.op = "deleteProfile"
    /\ Len(profiles) + 1 < nextId
    /\ activeProfileId # NULL
    /\ CurrentUser # <<>>
    /\ session = SessionItem(activeProfileId)

\* C10: createListing with no current user throws, sets the store error,
\* resets isLoading to false and leaves the listing collection unchanged.
C10_CreateNeedsCurrentUser ==
    CurrentUser = <<>> =>
        \A f \in FormInputs, imgs \in FileInputs :
            LET r == createListing(ListingState, CurrentUser, f, imgs)
            IN  /\ r.ret = "throws"
                /\ r.m.error = "You must be logged in to create a listing"
                /\ r.m.isLoading = FALSE
                /\ r.m.listings = listings

\* C10 witness: createListing has thrown after the active profile of a
\* seller was deleted, with that seller's listing still in the collection.
C10_Witness ==
    /\ last = [op |-> "createListing", ret |-> "throws"]
    /\ listError = "You must be logged in to create a listing"
    /\ ~listLoading
    /\ CurrentUser = <<>>
    /\ \E i \in 1..Len(listings) : listings[i].sellerId \notin ProfileIds

HasPrimary(images) == \E j \in 1..Len(images) : images[j].isPrimary

PrimaryCount(images) == Cardinality({ j \in 1..Len(images) : images[j].isPrimary })

\* C11: createListing called by current user U returns a listing with
\* sellerId = U.id, sellerName = U.name and status 'active'; the collection
\* afterwards is the collection before with that listing added at the end.
C11_CreateAppendsOwnListing ==
    CurrentUser # <<>> =>
        \A f \in FormInputs, imgs \in FileInputs :
            LET r == createListing(ListingState, CurrentUser, f, imgs)
                n == Len(listings)
            IN  /\ r.ret = "listing"
                /\ r.val[1].sellerId = CurrentUser[1].id
                /\ r.val[1].sellerName = CurrentUser[1].name
                /\ r.val[1].status = "active"
                /\ Len(r.m.listings) = n + 1
                /\ r.m.listings[n + 1] = r.val[1]
                /\ \A i \in 1..n : r.m.listings[i] = listings[i]

\* C11 witness: createListing has just added a second listing behind an
\* older one; it carries the current user's id and name and is active.
C11_Witness ==
    /\ last.op = "createListing" /\ last.ret = "listing"
    /\ CurrentUser # <<>>
    /\ Len(listings) = 2
    /\ listings[1].id < listings[2].id
    /\ listings[2].id = nextListingId - 1
    /\ listings[2].sellerId = CurrentUser[1].id
    /\ listings[2].sellerName = CurrentUser[1].name
    /\ listings[2].status = "active"

\* C12: createListing with an empty or absent image input yields a listing
\* whose image list has exactly one element, and that element is primary.
C12_CreateWithoutImagesHasOnePrimary ==
    CurrentUser # <<>> =>
        \A f \in FormInputs :
            LET r == createListing(ListingState, CurrentUser, f, <<>>)
            IN  /\ r.ret = "listing"
                /\ Len(r.val[1].images) = 1
                /\ r.val[1].images[1].isPrimary

\* C12 witness: the listing createListing has just added carries the one
\* placeholder image, flagged primary.
C12_Witness ==
    /\ last.op = "createListing" /\ last.ret = "listing"
    /\ \E i \in 1..Len(listings) :
          /\ listings[i].id = nextListingId - 1
          /\ Len(listings[i].images) = 1
          /\ listings[i].images[1].url = <<"placeholder">>
          /\ listings[i].images[1].isPrimary

\* C13: a successful updateListing that appends images to a listing with a
\* primary image keeps the old images as they were, the same one primary,
\* and flags none of the appended images; appending to a listing with no
\* image makes the first appended image primary.
C13_AppendKeepsPrimary ==
    \A i \in 1..Len(listings), f \in PatchInputs, imgs \in FileInputs :
        LET l == listings[i]
            n == Len(l.images)
            r == updateListing(ListingState, CurrentUser, l.id, f, imgs)
        IN  (Len(imgs) > 0 /\ r.ret = "listing") =>
                /\ Len(r.val[1].images) = n + Len(imgs)
                /\ HasPrimary(l.images) =>
                      /\ \A j \in 1..n : r.val[1].images[j] = l.images[j]
                      /\ \A j \in (n + 1)..(n + Len(imgs)) :
                            ~ r.val[1].images[j].isPrimary
                /\ n = 0 =>
                      /\ r.val[1].images[1].url = createMockImageUrl(imgs[1])
                      /\ r.val[1].images[1].isPrimary

\* C13 witness: updateListing has appended an image to a listing that had
\* its placeholder as primary, and one to a listing that arrived with no
\* image at all.
C13_Witness ==
    /\ last.op = "updateListing" /\ last.ret = "listing"
    /\ \E i \in 1..Len(listings) :
          /\ listings[i].id # RemoteId
          /\ Len(listings[i].images) = 2
          /\ listings[i].images[1] = createDefaultImage
          /\ listings[i].images[2] =
                [url |-> createMockImageUrl("f1"), isPrimary |-> FALSE]
    /\ \E i \in 1..Len(listings) :
          /\ listings[i].id = RemoteId
          /\ listings[i].images =
                <<[url |-> createMockImageUrl("f1"), isPrimary |-> TRUE]>>

\* C14: in every state reached from the empty Listing Store by createListing,
\* updateListing, setListingStatus and deleteListing, every listing with a
\* non-empty image list has exactly one image flagged primary.
C14_ExactlyOnePrimary ==
    \A i \in 1..Len(listings) :
        Len(listings[i].images) > 0 => PrimaryCount(listings[i].images) = 1

\* C14 witness: a listing created from an uploaded file has had a second
\* image appended, and its status set.
C14_Witness ==
    \E i \in 1..Len(listings) :
        /\ Len(listings[i].images) = 2
        /\ listings[i].images[1].url = createMockImageUrl("f1")
        /\ listings[i].status = "sold"
        /\ PrimaryCount(listings[i].images) = 1

\* C15: if a listing has a non-empty image list in which no image is flagged
\* primary, then after any successful updateListing on that listing its
\* first image is flagged primary.
C15_UpdateRepairsPrimary ==
    \A i \in 1..Len(listings), f \in PatchInputs, imgs \in FileInputs :
        LET l == listings[i]
            r == updateListing(ListingState, CurrentUser, l.id, f, imgs)
        IN  (Len(l.images) > 0 /\ ~ HasPrimary(l.images) /\ r.ret = "listing") =>
                r.val[1].images[1].isPrimary

\* What the code does repair: an update that appends at least one image.
C15_AppendRepairsPrimary ==
    \A i \in 1..Len(listings), f \in PatchInputs, imgs \in FileInputs :
        LET l == listings[i]
            r == updateListing(ListingState, CurrentUser, l.id, f, imgs)
        IN  (Len(l.images) > 0 /\ ~ HasPrimary(l.images) /\ Len(imgs) > 0
             /\ r.ret = "listing") =>
                /\ r.val[1].images[1].isPrimary
                /\ PrimaryCount(r.val[1].images) = 1

NotLoggedIn(op) ==
    CASE op = "updateListing" -> "You must be logged in to update a listing"
      [] op = "deleteListing" -> "You must be logged in to delete a listing"
      [] op = "setListingStatus" -> "You must be logged in to update a listing status"

NotOwner(op) ==
    CASE op = "updateListing" -> "You can only update your own listings"
      [] op = "deleteListing" -> "You can only delete your own listings"
      [] op = "setListingStatus" -> "You can only update your own listings"

MutatingOps == { "updateListing", "deleteListing", "setListingStatus" }

\* every outcome the three mutating operations can have on listing id in
\* the current state, each tagged with its operation
MutationOutcomes(id) ==
    { [op |-> "updateListing",
       r |-> updateListing(ListingState, CurrentUser, id, f, imgs)] :
         f \in PatchInputs, imgs \in FileInputs }
    \cup { [op |-> "deleteListing",
            r |-> deleteListing(ListingState, CurrentUser, id)] }
    \cup { [op |-> "setListingStatus",
            r |-> setListingStatus(ListingState, CurrentUser, id, st)] :
              st \in Statuses }

\* C16: updateListing, deleteListing and setListingStatus check the acting
\* identity, then the existence of the listing, then its ownership: with no
\* current user the not-logged-in error is reported whether or not the id
\* exists, a logged-in user gets not-found for a missing id and the ownership
\* error for another seller's listing, and in each case the collection is
\* left as it was.
C16_ChecksInOrder ==
    \A id \in ListingIdInputs : \A o \in MutationOutcomes(id) :
        LET found == getListingById(ListingState, id)
        IN  /\ CurrentUser = <<>> =>
                /\ o.r.ret \in { "null", "false" }
                /\ o.r.m.error = NotLoggedIn(o.op)
                /\ o.r.m.listings = listings
            /\ (CurrentUser # <<>> /\ found = <<>>) =>
                /\ o.r.ret \in { "null", "false" }
                /\ o.r.m.error = "Listing not found"
                /\ o.r.m.listings = listings
            /\ (CurrentUser # <<>> /\ found # <<>>
                /\ found[1].sellerId # CurrentUser[1].id) =>
                /\ o.r.ret \in { "null", "false" }
                /\ o.r.m.error = NotOwner(o.op)
                /\ o.r.m.listings = listings

\* C16 witness: with nobody logged in and no listing at all, setListingStatus
\* was called and reported the not-logged-in error.
C16_Witness ==
    /\ last.op = "setListingStatus" /\ last.ret = "false"
    /\ CurrentUser = <<>>
    /\ listings = <<>>
    /\ listError = NotLoggedIn("setListingStatus")

\* C17: after updateListing, deleteListing or setListingStatus completes,
\* the error field is non-null exactly when the operation returned null or
\* false, and isLoading is false.
C17_ErrorIffFalsy ==
    /\ \A id \in ListingIdInputs : \A o \in MutationOutcomes(id) :
          /\ (o.r.m.error # NoError) <=> (o.r.ret \in { "null", "false" })
          /\ ~ o.r.m.isLoading
    /\ last.op \in MutatingOps =>
          /\ (listError # NoError) <=> (last.ret \in { "null", "false" })
          /\ ~ listLoading

\* C17 witness: setListingStatus has completed with a true result on the
\* caller's own listing; no error is left and isLoading is false.
C17_Witness ==
    /\ last.op = "setListingStatus" /\ last.ret = "true"
    /\ listError = NoError
    /\ ~ listLoading
    /\ \E i \in 1..Len(listings) : listings[i].status = "sold"

\* a profile the bootstrap accepts as the administrator: named 'admin' up to
\* letter case, with the administrator flag
IsAdminAccount(profile) ==
    ToLowerCase(profile.name) = AdminName /\ profile.isAdmin = TRUE

HasAdminAccount(s) ==
    \E i \in 1..Len(s.profiles) : IsAdminAccount(s.profiles[i])

NamesInUse(excludeId) ==
    { ToLowerCase(Trim(profiles[i].name)) :
        i \in { j \in 1..Len(profiles) : profiles[j].id # excludeId } }

\* C20: isNameUnique(N) is true if and only if no profile's trimmed
\* case-folded name equals N trimmed and case-folded; with an excludeId
\* (NULL: none given) the profile with that id, and only that one, is left
\* out of the comparison.
C20_IsNameUniqueRule ==
    \A name \in Names, excludeId \in IdInputs \cup {NULL} :
        isNameUnique(UserState, name, excludeId)
            <=> ToLowerCase(Trim(name)) \notin NamesInUse(excludeId)

\* C20 witness: two profiles exist; 'A ' collides with the name of one of
\* them, is unique once that profile is excluded, and is still taken when
\* the other profile is excluded instead.
C20_Witness ==
    \E i, j \in 1..Len(profiles) :
        /\ i # j
        /\ profiles[i].name = <<"a">>
        /\ Normalize(profiles[j].name) # <<"a">>
        /\ ~ isNameUnique(UserState, <<"A", " ">>, NULL)
        /\ isNameUnique(UserState, <<"A", " ">>, profiles[i].id)
        /\ ~ isNameUnique(UserState, <<"A", " ">>, profiles[j].id)

\* the "user-session" item is missing or cannot be parsed
NoUsableRecord == session.kind \in { "none", "garbage" }

\* the Identity Store's checkSession and the Player Profile Store's login and
\* signup treat a missing or unparseable record as no session: none throws,
\* checkSession activates nobody, and login and signup authenticate only on
\* the record the user store's own success has just written
GuardedReadersTolerant ==
    /\ LET r == checkSession(UserState)
       IN  /\ r.ret # "throws"
           /\ r.s.activeProfileId # NULL => activeProfileId # NULL
    /\ \A u \in Names, pw \in Passwords :
          LET r == playerLogin(UserState, PlayerState, u, pw)
          IN  /\ r.ret # "throws"
              /\ r.p.isAuthenticated =>
                    /\ login(UserState, u, pw).ret = "true"
                    /\ r.s.session = SessionItem(r.s.activeProfileId)
    /\ \A u \in Names, pw \in Passwords :
          LET r == playerSignup(UserState, PlayerState, u, pw)
          IN  /\ r.ret # "throws"
              /\ r.p.isAuthenticated =>
                    /\ signup(UserState, u, pw).ret = "true"
                    /\ r.s.session = SessionItem(r.s.activeProfileId)

\* the Player Profile Store's checkSession does the same
PlayerCheckSessionTolerant ==
    LET r == playerCheckSession(UserState, PlayerState)
    IN  /\ r.ret # "throws"
        /\ ~ r.p.isAuthenticated
        /\ r.p.session = <<>>

\* C19: a missing or unparseable 'user-session' record is treated as no
\* session by every reader - the Identity Store's checkSession and the
\* Player Profile Store's checkSession, login and signup: no exception
\* escapes and no active or authenticated session results from the record.
C19_BadRecordIsNoSession ==
    NoUsableRecord => (GuardedReadersTolerant /\ PlayerCheckSessionTolerant)

\* The part of C19 the code keeps: every reader but the Player Profile
\* Store's checkSession, and that one too when the record is missing.
C19_GuardedReaders ==
    /\ NoUsableRecord => GuardedReadersTolerant
    /\ session = NoItem => PlayerCheckSessionTolerant

\* the Player Profile Store agrees with the Identity Store in outcome r:
\* authenticated exactly when there is a current user, and then the session
\* it holds names the active profile
PlayerMirrors(r) ==
    /\ r.p.isAuthenticated <=> (getCurrentUser(r.s) # <<>>)
    /\ r.p.isAuthenticated =>
          /\ r.p.session # <<>>
          /\ r.p.session[1].userId = r.s.activeProfileId

\* C21: after each completed Player Profile Store login, signup, logout or
\* checkSession, isAuthenticated is true exactly when the Identity Store has
\* a current user, and whenever it is true session.userId equals the
\* Identity Store's activeProfileId.
C21_AuthenticatedMirrorsCurrentUser ==
    /\ \A u \in Names, pw \in Passwords :
          /\ PlayerMirrors(playerLogin(UserState, PlayerState, u, pw))
          /\ PlayerMirrors(playerSignup(UserState, PlayerState, u, pw))
    /\ PlayerMirrors(playerLogout(UserState, PlayerState))
    /\ LET r == playerCheckSession(UserState, PlayerState)
       IN  r.ret # "throws" => PlayerMirrors(r)

\* The part of C21 the code keeps: a login or signup that succeeds, and a
\* logout, leave the two stores in agreement.
C21_MirrorsOnSuccess ==
    /\ \A u \in Names, pw \in Passwords :
          /\ LET r == playerLogin(UserState, PlayerState, u, pw)
             IN  r.ret = "true" => PlayerMirrors(r)
          /\ LET r == playerSignup(UserState, PlayerState, u, pw)
             IN  r.ret = "true" => PlayerMirrors(r)
    /\ PlayerMirrors(playerLogout(UserState, PlayerState))

\* the projection fetchProfileFromUser derives from the current user
Projection(s) ==
    LET user == getCurrentUser(s)[1]
    IN  PlayerProfile(user.id, user.name,
                      IF user.isAdmin = TRUE THEN "admin" ELSE "regular")

\* C22: a patch applied with updateProfile never changes any profile in the
\* Identity Store, and after the next mirror pass (fetchProfileFromUser)
\* every field of the projection, email included, is again the value derived
\* from the Identity Store's UserProfile: the patch is discarded.
C22_PatchDiscardedByMirror ==
    playerProfile # <<>> =>
        \A updates \in PlayerPatches :
            LET patched == updateProfile(UserState, PlayerState, updates)
                mirrored == fetchProfileFromUser(patched.s, patched.p)
            IN  /\ patched.s = UserState
                /\ mirrored.s = UserState
                /\ patched.p.profile # playerProfile =>
                      mirrored.p.profile # patched.p.profile
                /\ CurrentUser # <<>> =>
                      mirrored.p.profile = <<Projection(UserState)>>

\* The part of C22 the code keeps: the Identity Store is never touched, and
\* the patch is discarded whenever the Identity Store has a current user.
C22_PatchDiscardedForCurrentUser ==
    playerProfile # <<>> =>
        \A updates \in PlayerPatches :
            LET patched == updateProfile(UserState, PlayerState, updates)
                mirrored == fetchProfileFromUser(patched.s, patched.p)
            IN  /\ patched.s = UserState
                /\ mirrored.s = UserState
                /\ CurrentUser # <<>> =>
                      mirrored.p.profile = <<Projection(UserState)>>

\* C29: once checkSession has run, in every state reached by login, signup,
\* logout, createProfile, setActiveProfile, deleteProfile, checkSession and
\* resetData, the 'user-session' record names a user exactly when
\* activeProfileId is non-null, and then it names activeProfileId.  (A record
\* that cannot be parsed or carries no userId names nobody.)
C29_RecordMatchesActiveProfile ==
    GetSessionData(session) = activeProfileId

\* The part of C29 the code keeps: the record and activeProfileId agree as
\* long as activeProfileId is null or names a profile that exists.
C29_RecordMatchesLiveProfile ==
    (activeProfileId = NULL \/ CurrentUser # <<>>) =>
        GetSessionData(session) = activeProfileId

\* C30: a non-null activeProfileId is the id of a profile in the profile set,
\* so getCurrentUser() returns a profile exactly when activeProfileId is
\* non-null.
C30_ActiveProfileExists ==
    /\ activeProfileId # NULL =>
          \E i \in 1..Len(profiles) : profiles[i].id = activeProfileId
    /\ (CurrentUser # <<>>) <=> (activeProfileId # NULL)

\* The part of C30 the code keeps: setActiveProfile with the id of a profile,
\* and every other operation, leave activeProfileId null or live if it was.
C30_OtherOperationsKeepItLive ==
    LET Live(s) == s.activeProfileId = NULL \/ getCurrentUser(s) # <<>>
    IN  Live(UserState) =>
            /\ \A id \in ProfileIds : Live(setActiveProfile(UserState, id).s)
            /\ \A id \in IdInputs : Live(deleteProfile(UserState, id).s)
            /\ \A u \in Names, pw \in Passwords :
                  /\ Live(login(UserState, u, pw).s)
                  /\ Live(signup(UserState, u, pw).s)
            /\ \A n \in Names : Live(createProfile(UserState, n).s)
            /\ Live(checkSession(UserState).s)
            /\ Live(logout(UserState).s)
            /\ Live(resetData(UserState).s)
            /\ Live(onLoad(UserState).s)

\* the form fields a listing takes over as they are (tags are derived)
CopiedFields == { "title", "listingType", "category" }

\* patches the frame claims are checked against
FramePatches ==
    PatchInputs \cup { [listingType |-> "buy", category |-> "console"],
                       [title |-> "t3", tags |-> <<"w">>] }

\* C24: a successful updateListing(id, patch, newImages) sets exactly the
\* form fields present in patch, re-derives the tag list only when patch
\* contains tags, keeps the existing images in order followed by the new
\* images, and leaves id, sellerId, sellerName, createdAt and status as they
\* were; the result is stored in the listing's place.
C24_UpdateFrame ==
    \A i \in 1..Len(listings), f \in FramePatches, imgs \in FileInputs :
        LET l == listings[i]
            n == Len(l.images)
            r == updateListing(ListingState, CurrentUser, l.id, f, imgs)
            u == r.val[1]
        IN  r.ret = "listing" =>
                /\ \A fld \in CopiedFields :
                      u[fld] = IF fld \in DOMAIN f THEN f[fld] ELSE l[fld]
                /\ u.tags = IF "tags" \in DOMAIN f THEN ParseTags(f.tags)
                            ELSE l.tags
                /\ Len(u.images) = n + Len(imgs)
                /\ \A j \in 1..n : u.images[j].url = l.images[j].url
                /\ \A j \in 1..Len(imgs) :
                      u.images[n + j].url = createMockImageUrl(imgs[j])
                /\ u.id = l.id
                /\ u.sellerId = l.sellerId
                /\ u.sellerName = l.sellerName
                /\ u.createdAt = l.createdAt
                /\ u.status = l.status
                /\ r.m.listings[i] = u

\* C24 witness: a listing that was sold has been updated at a later time:
\* new title, a second image, still sold, creation time as it was.
C24_Witness ==
    /\ last.op = "updateListing" /\ last.ret = "listing"
    /\ \E i \in 1..Len(listings) :
          /\ listings[i].title = "t2"
          /\ listings[i].status = "sold"
          /\ Len(listings[i].images) = 2
          /\ listings[i].createdAt < listings[i].updatedAt
          /\ listings[i].updatedAt = now

\* the sequence without its i-th element
WithoutIndex(seq, i) == SubSeq(seq, 1, i - 1) \o SubSeq(seq, i + 1, Len(seq))

\* C25: a successful setListingStatus(id, s) changes only the status and the
\* update timestamp of listing id; a successful deleteListing(id) removes
\* only listing id; every other listing is unchanged and the order of the
\* remaining listings is kept.
C25_StatusAndDeleteFrame ==
    \A i \in 1..Len(listings) :
        /\ \A st \in Statuses :
              LET r == setListingStatus(ListingState, CurrentUser,
                                        listings[i].id, st)
              IN  r.ret = "true" =>
                    /\ Len(r.m.listings) = Len(listings)
                    /\ \A k \in 1..Len(listings) :
                          k # i => r.m.listings[k] = listings[k]
                    /\ r.m.listings[i].status = st
                    /\ r.m.listings[i].updatedAt = now
                    /\ \A fld \in DOMAIN listings[i] \ { "status", "updatedAt" } :
                          r.m.listings[i][fld] = listings[i][fld]
        /\ LET r == deleteListing(ListingState, CurrentUser, listings[i].id)
           IN  r.ret = "true" => r.m.listings = WithoutIndex(listings, i)

\* C25 witness: of two listings of one seller the first has just been set
\* to sold at a later time, the second is as it was created.
C25_Witness ==
    /\ last.op = "setListingStatus" /\ last.ret = "true"
    /\ Len(listings) = 2
    /\ listings[1].sellerId = listings[2].sellerId
    /\ listings[1].status = "sold"
    /\ listings[1].createdAt < listings[1].updatedAt
    /\ listings[2].status = "active"
    /\ listings[2].createdAt = listings[2].updatedAt

\* C26: a change made to listing L while an updateListing on L is suspended
\* at its await - by setListingStatus, by another updateListing or by a
\* remote document - is still in effect after the suspended call has resumed
\* and completed, for every field its patch does not name.  (The call names
\* the fields of its patch, the images it appends to, and the update
\* timestamp.)
C26_ChangesSurviveSuspendedUpdate ==
    pending # <<>> =>
        LET call == pending[1]
            current == getListingById(ListingState, call.id)
            r == updateListingResume(ListingState, call)
            after == getListingById(r.m, call.id)
        IN  current # <<>> =>
                \A fld \in DOMAIN current[1] \
                           (DOMAIN call.formData \cup { "images", "updatedAt" }) :
                    after[1][fld] = current[1][fld]

\* What the code does keep: with the listing untouched during the
\* suspension, resuming gives what the unsuspended call would have given.
C26_ResumeOfUntouchedListing ==
    pending # <<>> =>
        LET call == pending[1]
            current == getListingById(ListingState, call.id)
            r == updateListingResume(ListingState, call)
            atomic == updateListing(ListingState, CurrentUser, call.id,
                                    call.formData, call.imageFiles)
        IN  (current = <<call.listing>> /\ CurrentUser # <<>>) =>
                r.m.listings = atomic.m.listings

\* C23: every listing created through the listing-creation form has a
\* category of the item-category set when its listing type is sell, buy or
\* trade, and of the service-category set when its listing type is
\* offer_service or request_service, whatever edits preceded the submission.
\* In SpecForm every listing of the collection was created through the form.
C23_FormCategoryMatchesType ==
    \A i \in 1..Len(listings) :
        /\ listings[i].listingType \in PhysicalTypes
              => listings[i].category \in ItemCategories
        /\ listings[i].listingType \in ServiceTypes
              => listings[i].category \in ServiceCategories

\* the condition a step puts on the form data
StepValid(f, step) ==
    CASE step = 2 -> Trim(f.title) # <<>> /\ Trim(f.shortDescription) # <<>>
      [] step = 3 -> Trim(f.price) # <<>>
      [] step = 4 -> (Trim(f.location) # <<>> \/ f.isRemote)
                     /\ Trim(f.contactInfo) # <<>>
      [] OTHER -> TRUE

AllStepsValid(f) == \A step \in 1..totalSteps : StepValid(f, step)

EarliestErrorStep(f) ==
    CHOOSE step \in 1..totalSteps :
        /\ ~StepValid(f, step)
        /\ \A earlier \in 1..(step - 1) : StepValid(f, earlier)

\* the form data a submission on the last step may meet: that of the form
\* with every text field blank, blank but for a space, or filled in
SubmittedForms(f) ==
    { [f EXCEPT !.title = t, !.shortDescription = sd, !.price = pr,
                !.location = loc, !.contactInfo = ci, !.isRemote = rem] :
        t \in {<<" ">>, <<"x">>}, sd \in {<<>>, <<"x">>},
        pr \in {<<" ">>, <<"x">>}, loc \in {<<>>, <<"x">>},
        ci \in {<<" ">>, <<"x">>}, rem \in BOOLEAN }

\* C28: the current step stays within 1..5; Next, and a submit before step
\* 5, stays on step s or goes to s+1, and goes to s+1 only when step s
\* validates; on step 5 a submit hands the form to createListing exactly
\* when every step validates (title, short description, price and contact
\* info non-blank, location non-blank or remote selected) and otherwise
\* goes to the earliest step that has an error, leaving the store alone.
C28_StepsAndSubmission ==
    form # <<>> =>
        LET F == form[1]
            f == F.formData
            s == F.currentStep
            next == handleNextStep(F)
            sub == handleSubmit(F, ListingState, CurrentUser)
        IN  /\ s \in 1..totalSteps
            /\ next.currentStep \in {s, s + 1} \cap (1..totalSteps)
            /\ next.currentStep = s + 1 => StepValid(f, s)
            /\ s < totalSteps => sub.form = <<next>> /\ sub.m = ListingState
            /\ sub.ret \in {"listing", "throws"}
                  => s = totalSteps /\ AllStepsValid(f)
            /\ s = totalSteps =>
                  \A g \in SubmittedForms(f) :
                      LET r == handleSubmit([F EXCEPT !.formData = g],
                                            ListingState, CurrentUser)
                      IN  IF AllStepsValid(g)
                          THEN r.ret \in {"listing", "throws"}
                          ELSE /\ r.ret = "invalid"
                               /\ r.m = ListingState
                               /\ r.form[1].currentStep = EarliestErrorStep(g)

\* a form that passed every step was submitted on step 5 and created a listing
C28_Witness ==
    /\ last.op = "handleSubmit"
    /\ last.ret = "listing"
    /\ listings # <<>>

=============================================================================
